---- MODULE Spec2Model ----
(***************************************************************************)
(* Model of the context management core of the chat client:               *)
(* services/ConversationService.ts (token estimator, capacity table,       *)
(* context trimmer, title generation, system prompt catalog) over an       *)
(* AsyncStorage key-value store.                                           *)
(*                                                                         *)
(* Representation of JavaScript values:                                    *)
(*   - an optional argument or result is a sequence of length 0 or 1:      *)
(*     undefined is << >>, a present value v is << v >>;                   *)
(*   - an optional record field (StoredMessage.tokens) is a field that is  *)
(*     absent from the record;                                             *)
(*   - a message text is a sequence of characters; prompt texts, ids,      *)
(*     model names and storage keys are strings; Len is text.length for    *)
(*     both;                                                               *)
(*   - the value of an expression that may not be a number is tagged:      *)
(*     Number(n), NaN or FunctionObject.                                   *)
(***************************************************************************)
EXTENDS Integers, Sequences, FiniteSets, TLC

VARIABLES
    \* estimateTokens / getContextLimit calls
    textA, textB, estimateA, estimateB, modelArg, limitResult,
    \* generateConversationTitle call
    firstMessage, title,
    \* trimContext calls
    inMessages, inModelName, inSystemPrompt, inMaxTokens, trimResults, otherResult,
    \* environment
    now, storage, raised,
    \* getSelectedSystemPrompt calls
    getPc, getArgs, storedPromptId, selectedPrompt,
    \* the prompt id last written by setSelectedSystemPrompt, per pair
    lastWritten,
    \* conversation store calls: the call each caller has in progress, and the
    \* outcome of the call each caller completed last
    calls, outcome,
    \* ChatScreen: its React state,
    selectedProvider, apiKeys, currentModel, currentSystemPrompt,
    currentConversation, chatConversations, chatMessages, inputText, isLoading,
    \* the progress of initializeApp, the effects waiting to run, the
    \* sendMessage call waiting for the provider,
    chatPc, pendingEffects, send,
    \* and what it did last: the provider call, the first user message sent
    \* in each conversation, the prompt switch
    handed, firstSent, switched

estimateVars == <<textA, textB, estimateA, estimateB, modelArg, limitResult>>
titleVars == <<firstMessage, title>>
trimVars == <<inMessages, inModelName, inSystemPrompt, inMaxTokens, trimResults, otherResult>>
envVars == <<now, storage, raised>>
getVars == <<getPc, getArgs, storedPromptId, selectedPrompt>>
prefVars == <<lastWritten>>
storeVars == <<calls, outcome>>
screenVars ==
    <<selectedProvider, apiKeys, currentModel, currentSystemPrompt,
      currentConversation, chatConversations, chatMessages, inputText, isLoading>>
chatVars == <<screenVars, chatPc, pendingEffects, send, handed, firstSent, switched>>
appVars == <<prefVars, storeVars, chatVars>>
vars == <<estimateVars, titleVars, trimVars, envVars, getVars, appVars>>

-----------------------------------------------------------------------------
(* Bounds of the model *)

MaxMsgs == 3
MaxCalls == 2
MaxClock == 1
MaxTextLen == 9
MaxTitleInputLen == 53
MaxShown == 4

-----------------------------------------------------------------------------
(* JavaScript values *)

undefined == << >>
Some(v) == << v >>

Number(n) == [type |-> "number", value |-> n]
NaN == [type |-> "number", nan |-> TRUE]
FunctionObject == [type |-> "function"]

IsNumber(v) == v.type = "number" /\ "value" \in DOMAIN v

RECURSIVE Repeat(_, _)
Repeat(s, n) ==
    IF n = 0 THEN ""
    ELSE IF n % 2 = 1 THEN Repeat(s, n - 1) \o s
    ELSE LET half == Repeat(s, n \div 2) IN half \o half

Chars(c, n) == [i \in 1..n |-> c]

-----------------------------------------------------------------------------
(* Static tables *)

MODEL_CONTEXT_LIMITS ==
    ("gpt-4o" :> 128000) @@ ("gpt-4o-mini" :> 128000) @@
    ("gpt-4-turbo" :> 128000) @@ ("gpt-4" :> 8192) @@
    ("gpt-3.5-turbo" :> 4096) @@
    ("claude-3-5-sonnet-20241022" :> 200000) @@
    ("claude-3-5-haiku-20241022" :> 200000) @@
    ("claude-3-opus-20240229" :> 200000) @@
    ("claude-3-sonnet-20240229" :> 200000) @@
    ("claude-3-haiku-20240307" :> 200000) @@
    ("gemini-1.5-pro-latest" :> 2000000) @@
    ("gemini-1.5-flash-latest" :> 1000000) @@
    ("gemini-pro" :> 32000) @@ ("gemini-pro-vision" :> 16000) @@
    ("llama-3.1-405b-reasoning" :> 32768) @@
    ("llama-3.1-70b-versatile" :> 32768) @@
    ("llama-3.1-8b-instant" :> 8192) @@
    ("mixtral-8x7b-32768" :> 32768) @@ ("gemma2-9b-it" :> 8192)

\* MODEL_CONTEXT_LIMITS is an object literal: a property that is not its own
\* is looked up on Object.prototype, whose members are function objects.
ObjectPrototypeKeys ==
    {"constructor", "toString", "toLocaleString", "valueOf",
     "hasOwnProperty", "isPrototypeOf", "propertyIsEnumerable"}

DefaultContextLimit == 4096

DEFAULT_SYSTEM_PROMPTS ==
    << [id |-> "default", name |-> "Default Assistant", isDefault |-> TRUE,
        prompt |-> "You are a helpful AI assistant. Be concise, accurate, and friendly in your responses."],
       [id |-> "creative", name |-> "Creative Writer", isDefault |-> TRUE,
        prompt |-> "You are a creative writing assistant. Help with storytelling, character development, and imaginative content. Be creative and inspiring."],
       [id |-> "technical", name |-> "Technical Expert", isDefault |-> TRUE,
        prompt |-> "You are a technical expert and programming assistant. Provide accurate, detailed technical information and code examples when appropriate."],
       [id |-> "teacher", name |-> "Patient Teacher", isDefault |-> TRUE,
        prompt |-> "You are a patient and encouraging teacher. Explain concepts clearly, provide examples, and adapt your explanations to the user's level of understanding."],
       [id |-> "analyst", name |-> "Research Analyst", isDefault |-> TRUE,
        prompt |-> "You are a research analyst. Provide thorough analysis, cite sources when possible, and present information in a structured, objective manner."] >>

SYSTEM_PROMPTS_KEY == "custom_system_prompts"

-----------------------------------------------------------------------------
(* Token estimator and capacity table *)

\* variant: Math.floor(text.length / 4)
estimateTokensFloor(text) == Len(text) \div 4

\* Math.ceil(text.length / 4)
estimateTokens(text) == (Len(text) + 3) \div 4

\* MODEL_CONTEXT_LIMITS[modelName] || 4096
getContextLimit(modelName) ==
    IF modelName \in DOMAIN MODEL_CONTEXT_LIMITS
    THEN IF MODEL_CONTEXT_LIMITS[modelName] # 0
         THEN Number(MODEL_CONTEXT_LIMITS[modelName])
         ELSE Number(DefaultContextLimit)
    ELSE IF modelName \in ObjectPrototypeKeys
         THEN FunctionObject
         ELSE Number(DefaultContextLimit)

-----------------------------------------------------------------------------
(* Context trimmer *)

\* const contextLimit = maxTokens || this.getContextLimit(modelName)
contextLimit(modelName, maxTokens) ==
    IF maxTokens # undefined /\ maxTokens[1] # 0
    THEN Number(maxTokens[1])
    ELSE getContextLimit(modelName)

\* const systemTokens = systemPrompt ? this.estimateTokens(systemPrompt) : 0
systemTokens(systemPrompt) ==
    IF systemPrompt # undefined /\ systemPrompt[1] # ""
    THEN estimateTokens(systemPrompt[1])
    ELSE 0

\* Math.floor(x * 0.8) for an integer x: the double nearest to 0.8 lies above
\* 0.8 by less than half an ulp, so the product never crosses an integer.
FloorOf80Percent(x) == (x * 4) \div 5

\* variant: the system prompt is not charged against the budget
availableTokensNoSystem(modelName, systemPrompt, maxTokens) ==
    LET limit == contextLimit(modelName, maxTokens)
    IN  IF IsNumber(limit) THEN Number(FloorOf80Percent(limit.value)) ELSE NaN

\* variant: the reserve for the response grows with the clock
availableTokensByClock(modelName, systemPrompt, maxTokens) ==
    LET limit == contextLimit(modelName, maxTokens)
    IN  IF IsNumber(limit)
        THEN Number(FloorOf80Percent(limit.value) - systemTokens(systemPrompt) - now)
        ELSE NaN

\* const availableTokens = Math.floor(contextLimit * 0.8) - systemTokens;
\* a contextLimit that is not a number converts to NaN
availableTokens(modelName, systemPrompt, maxTokens) ==
    LET limit == contextLimit(modelName, maxTokens)
    IN  IF IsNumber(limit)
        THEN Number(FloorOf80Percent(limit.value) - systemTokens(systemPrompt))
        ELSE NaN

\* const messageTokens = message.tokens || this.estimateTokens(message.text)
messageTokens(message) ==
    IF "tokens" \in DOMAIN message /\ message.tokens # 0
    THEN message.tokens
    ELSE estimateTokens(message.text)

\* variant: a message that uses up the budget exactly does not fit
FitsStrictly(totalTokens, message, available) ==
    IsNumber(available) /\ totalTokens + messageTokens(message) < available.value

\* totalTokens + messageTokens <= availableTokens (false when NaN)
Fits(totalTokens, message, available) ==
    IsNumber(available) /\ totalTokens + messageTokens(message) <= available.value

\* variant: the walk ends before the first message of its input (i > 0 on
\* 0-based indices)
RECURSIVE TrimLoopStopsEarly(_, _, _, _, _)
TrimLoopStopsEarly(messages, i, totalTokens, trimmedMessages, available) ==
    IF i < 2 THEN trimmedMessages
    ELSE IF Fits(totalTokens, messages[i], available)
         THEN TrimLoopStopsEarly(messages, i - 1,
                                 totalTokens + messageTokens(messages[i]),
                                 <<messages[i]>> \o trimmedMessages, available)
         ELSE trimmedMessages

\* variant: a message that does not fit is skipped and the walk continues
RECURSIVE TrimLoopSkip(_, _, _, _, _)
TrimLoopSkip(messages, i, totalTokens, trimmedMessages, available) ==
    IF i < 1 THEN trimmedMessages
    ELSE IF Fits(totalTokens, messages[i], available)
         THEN TrimLoopSkip(messages, i - 1, totalTokens + messageTokens(messages[i]),
                           <<messages[i]>> \o trimmedMessages, available)
         ELSE TrimLoopSkip(messages, i - 1, totalTokens, trimmedMessages, available)

\* the loop of trimContext from index i (1-based) down to the first message
RECURSIVE TrimLoop(_, _, _, _, _)
TrimLoop(messages, i, totalTokens, trimmedMessages, available) ==
    IF i < 1 THEN trimmedMessages
    ELSE IF Fits(totalTokens, messages[i], available)
         THEN TrimLoop(messages, i - 1, totalTokens + messageTokens(messages[i]),
                       <<messages[i]>> \o trimmedMessages, available)
         ELSE trimmedMessages

\* variant: nothing is forced into an empty result
EnsureNothing(messages, trimmedMessages) == trimmedMessages

\* variant: the oldest message is forced into an empty result
EnsureFirst(messages, trimmedMessages) ==
    IF Len(trimmedMessages) = 0 /\ Len(messages) > 0
    THEN <<messages[1]>>
    ELSE trimmedMessages

\* if (trimmedMessages.length === 0 && messages.length > 0) push the last one
EnsureLast(messages, trimmedMessages) ==
    IF Len(trimmedMessages) = 0 /\ Len(messages) > 0
    THEN <<messages[Len(messages)]>>
    ELSE trimmedMessages

trimContext(messages, modelName, systemPrompt, maxTokens) ==
    EnsureLast(messages,
               TrimLoop(messages, Len(messages), 0, << >>,
                        availableTokens(modelName, systemPrompt, maxTokens)))

-----------------------------------------------------------------------------
(* Title generation *)

IsWhiteSpace(c) == c \in {" ", "\n", "\t", "\r"}

RECURSIVE TrimStart(_)
TrimStart(s) ==
    IF s = << >> \/ ~IsWhiteSpace(Head(s)) THEN s ELSE TrimStart(Tail(s))

RECURSIVE TrimEnd(_)
TrimEnd(s) ==
    IF s = << >> \/ ~IsWhiteSpace(s[Len(s)]) THEN s
    ELSE TrimEnd(SubSeq(s, 1, Len(s) - 1))

\* String.prototype.trim
Trim(s) == TrimEnd(TrimStart(s))

\* replace(/\n/g, ' ')
ReplaceNewlines(s) == [i \in 1..Len(s) |-> IF s[i] = "\n" THEN " " ELSE s[i]]

maxLength == 50

Ellipsis == <<".", ".", ".">>

\* variant: cleaned.substring(0, maxLength) + '...'
generateConversationTitleLong(text) ==
    LET cleaned == ReplaceNewlines(Trim(text))
    IN  IF Len(cleaned) <= maxLength
        THEN cleaned
        ELSE SubSeq(cleaned, 1, maxLength) \o Ellipsis

generateConversationTitle(text) ==
    LET cleaned == ReplaceNewlines(Trim(text))
    IN  IF Len(cleaned) <= maxLength
        THEN cleaned
        ELSE SubSeq(cleaned, 1, maxLength - 3) \o Ellipsis

-----------------------------------------------------------------------------
(* AsyncStorage and the system prompt catalog *)

null == << >>

\* AsyncStorage.getItem(key) when the read succeeds: null for a missing key
getItem(key) == IF key \in DOMAIN storage THEN Some(storage[key]) ELSE null

\* the store after AsyncStorage.setItem(key, value) succeeded
setItem(key, value) == (key :> value) @@ storage

\* `system_prompt_${providerId}_${modelName}`
SelectedPromptKey(providerId, modelName) ==
    "system_prompt_" \o providerId \o "_" \o modelName

\* getCustomSystemPrompts: the stored list, [] when nothing is stored or the
\* read fails
getCustomSystemPrompts(readOk) ==
    IF readOk /\ getItem(SYSTEM_PROMPTS_KEY) # null
    THEN getItem(SYSTEM_PROMPTS_KEY)[1]
    ELSE << >>

\* getSystemPrompts: built-ins followed by the stored custom prompts, the
\* built-ins alone when the read fails
getSystemPrompts(readOk) ==
    IF readOk /\ getItem(SYSTEM_PROMPTS_KEY) # null
    THEN DEFAULT_SYSTEM_PROMPTS \o getItem(SYSTEM_PROMPTS_KEY)[1]
    ELSE DEFAULT_SYSTEM_PROMPTS

\* Array.prototype.findIndex by id: 0 when there is no match
FindIndexById(list, id) ==
    IF \E i \in 1..Len(list) : list[i].id = id
    THEN CHOOSE i \in 1..Len(list) :
            /\ list[i].id = id
            /\ \A j \in 1..(i - 1) : list[j].id # id
    ELSE 0

\* Array.prototype.filter(p => p.id !== id)
RECURSIVE FilterOutId(_, _)
FilterOutId(list, id) ==
    IF list = << >> THEN << >>
    ELSE IF Head(list).id # id
         THEN <<Head(list)>> \o FilterOutId(Tail(list), id)
         ELSE FilterOutId(Tail(list), id)

\* variant: prompt ? prompt.prompt : DEFAULT_SYSTEM_PROMPTS[0].prompt
PromptTextOrDefaultWhenMissing(prompts, promptId) ==
    LET index == FindIndexById(prompts, promptId)
    IN  IF index # 0
        THEN prompts[index].prompt
        ELSE DEFAULT_SYSTEM_PROMPTS[1].prompt

\* prompts.find(p => p.id === promptId)?.prompt || DEFAULT_SYSTEM_PROMPTS[0].prompt
PromptTextOrDefault(prompts, promptId) ==
    LET index == FindIndexById(prompts, promptId)
    IN  IF index # 0 /\ prompts[index].prompt # ""
        THEN prompts[index].prompt
        ELSE DEFAULT_SYSTEM_PROMPTS[1].prompt

\* the outcome of a completed getSelectedSystemPrompt call: its arguments, the
\* prompt id it read (null when nothing was stored or the read failed, which
\* readFailed tells apart), and the text it returned
Returned(providerId, modelName, promptId, text, readFailed) ==
    [providerId |-> providerId, modelName |-> modelName, promptId |-> promptId,
     threw |-> FALSE, text |-> text, readFailed |-> readFailed]

\* variant: catch (error) { console.error(...) }
CatchAndLog(failed) == FALSE

\* catch (error) { console.error(...); throw error; }: the caller sees the
\* failure of the awaited storage call
CatchAndRethrow(failed) == failed

\* setSelectedSystemPrompt when its setItem succeeds (writeOk) or fails
setSelectedSystemPromptWrite(providerId, modelName, promptId, writeOk) ==
    /\ storage' = IF writeOk
                  THEN setItem(SelectedPromptKey(providerId, modelName), promptId)
                  ELSE storage
    /\ raised' = CatchAndRethrow(~writeOk)
    /\ UNCHANGED now

\* setSelectedSystemPrompt: one setItem; a failed write is rethrown
setSelectedSystemPrompt(providerId, modelName, promptId) ==
    \E writeOk \in BOOLEAN :
        setSelectedSystemPromptWrite(providerId, modelName, promptId, writeOk)

\* saveSystemPrompt: upsert by id into the custom list, then setItem
saveSystemPrompt(prompt) ==
    /\ \E readOk \in BOOLEAN, writeOk \in BOOLEAN :
        LET customPrompts == getCustomSystemPrompts(readOk)
            existingIndex == FindIndexById(customPrompts, prompt.id)
            updated == IF existingIndex # 0
                       THEN [customPrompts EXCEPT ![existingIndex] = prompt]
                       ELSE Append(customPrompts, prompt)
        IN  IF writeOk
            THEN storage' = setItem(SYSTEM_PROMPTS_KEY, updated) /\ raised' = FALSE
            ELSE storage' = storage /\ raised' = TRUE
    /\ UNCHANGED now

\* deleteSystemPrompt: filter the custom list by id, then setItem
deleteSystemPrompt(promptId) ==
    /\ \E readOk \in BOOLEAN, writeOk \in BOOLEAN :
        LET customPrompts == getCustomSystemPrompts(readOk)
            filteredPrompts == FilterOutId(customPrompts, promptId)
        IN  IF writeOk
            THEN storage' = setItem(SYSTEM_PROMPTS_KEY, filteredPrompts) /\ raised' = FALSE
            ELSE storage' = storage /\ raised' = TRUE
    /\ UNCHANGED now

\* getSelectedSystemPrompt up to its first await: read the stored prompt id;
\* a failed read and a missing or empty id return the first built-in prompt
getSelectedSystemPromptReadId(providerId, modelName) ==
    /\ getPc = "idle"
    /\ \E readOk \in BOOLEAN :
        LET stored == IF readOk THEN getItem(SelectedPromptKey(providerId, modelName))
                      ELSE null
        IN  IF readOk /\ stored # null /\ stored[1] # ""
            THEN /\ getPc' = "prompts"
                 /\ getArgs' = Some(<<providerId, modelName>>)
                 /\ storedPromptId' = stored
                 /\ selectedPrompt' = selectedPrompt
            ELSE /\ getPc' = "idle"
                 /\ getArgs' = undefined
                 /\ storedPromptId' = undefined
                 /\ selectedPrompt' = Some(Returned(providerId, modelName, stored,
                        DEFAULT_SYSTEM_PROMPTS[1].prompt, ~readOk))

\* getSelectedSystemPrompt after the id was read: load the prompts and
\* resolve the id
getSelectedSystemPromptResolve ==
    /\ getPc = "prompts"
    /\ \E readOk \in BOOLEAN :
        selectedPrompt' = Some(Returned(getArgs[1][1], getArgs[1][2], storedPromptId,
            PromptTextOrDefault(getSystemPrompts(readOk), storedPromptId[1]), FALSE))
    /\ getPc' = "idle"
    /\ getArgs' = undefined
    /\ storedPromptId' = undefined

\* the clock advances
Tick ==
    /\ now < MaxClock
    /\ now' = now + 1
    /\ UNCHANGED <<storage, raised>>

-----------------------------------------------------------------------------
(* The conversation store *)

CONVERSATIONS_KEY == "stored_conversations"

\* two callers of the conversation store
Callers == {"first", "second"}

\* no call in progress, no call completed
Idle == [op |-> "idle"]

CURRENT_CONVERSATION_KEY == "current_conversation_id"

\* new Date() when the clock shows t
Date(t) == [time |-> t]

\* Date.prototype.toJSON, which JSON.stringify applies to a Date
toISOString(date) == [iso |-> date.time]

\* new Date(isoString)
DateOf(text) == [time |-> text.iso]

\* JSON.stringify(conversations): every Date becomes its ISO string
StringifyMessage(msg) == [msg EXCEPT !.timestamp = toISOString(@)]

StringifyConversation(conv) ==
    [conv EXCEPT !.createdAt = toISOString(@),
                 !.updatedAt = toISOString(@),
                 !.messages = [i \in 1..Len(@) |-> StringifyMessage(@[i])]]

JSONstringify(conversations) ==
    [i \in 1..Len(conversations) |-> StringifyConversation(conversations[i])]

\* the map of getConversations over the parsed list: the three kinds of date
\* string become Dates again
ReviveMessage(msg) == [msg EXCEPT !.timestamp = DateOf(@)]

ReviveConversation(conv) ==
    [conv EXCEPT !.createdAt = DateOf(@),
                 !.updatedAt = DateOf(@),
                 !.messages = [i \in 1..Len(@) |-> ReviveMessage(@[i])]]

\* getConversations: the stored list with its dates revived; [] when nothing
\* is stored or the read fails
getConversations(readOk) ==
    IF readOk /\ getItem(CONVERSATIONS_KEY) # null
    THEN LET parsed == getItem(CONVERSATIONS_KEY)[1]
         IN  [i \in 1..Len(parsed) |-> ReviveConversation(parsed[i])]
    ELSE << >>

\* variant: the conversation is always pushed
saveConversationModifyPush(conversations, conversation) ==
    Append(conversations, conversation)

\* variant: the list to write is computed from the store as it is at the
\* time of the write
saveConversationModifyFresh(conversations, conversation) ==
    LET fresh == getConversations(TRUE)
        existingIndex == FindIndexById(fresh, conversation.id)
    IN  IF existingIndex # 0
        THEN [fresh EXCEPT ![existingIndex] =
                 [conversation EXCEPT !.updatedAt = Date(now)]]
        ELSE Append(fresh, conversation)

\* saveConversation between its read and its write: replace the record with
\* the same id by the conversation with updatedAt = new Date(), or push the
\* conversation as it is
saveConversationModify(conversations, conversation) ==
    LET existingIndex == FindIndexById(conversations, conversation.id)
    IN  IF existingIndex # 0
        THEN [conversations EXCEPT ![existingIndex] =
                 [conversation EXCEPT !.updatedAt = Date(now)]]
        ELSE Append(conversations, conversation)

\* getCurrentConversationId: the stored id, null when nothing is stored or
\* the read fails
getCurrentConversationId(readOk) ==
    IF readOk THEN getItem(CURRENT_CONVERSATION_KEY) ELSE null

\* the fault injected into a completed call
Fault(readOk, writeOk) ==
    IF ~writeOk THEN "write" ELSE IF ~readOk THEN "read" ELSE "none"

\* a successful write by caller p lands between the read and the write of
\* every other call in progress
AfterWriteBy(p, wrote) ==
    [q \in Callers |->
        IF q = p THEN Idle
        ELSE IF wrote /\ calls[q].op # "idle"
             THEN [calls[q] EXCEPT !.interfered = TRUE]
             ELSE calls[q]]

\* getConversations called by p
GetConversationsBy(p) ==
    /\ calls[p].op = "idle"
    /\ \E readOk \in BOOLEAN :
        outcome' = [outcome EXCEPT ![p] =
            [op |-> "getConversations", fault |-> Fault(readOk, TRUE),
             threw |-> CatchAndLog(~readOk), result |-> getConversations(readOk)]]
    /\ UNCHANGED <<calls, envVars>>

\* saveConversation up to its await of getConversations
SaveConversationRead(p, conversation) ==
    /\ calls[p].op = "idle"
    /\ \E readOk \in BOOLEAN :
        calls' = [calls EXCEPT ![p] =
            [op |-> "saveConversation", conversation |-> conversation,
             conversations |-> getConversations(readOk), readOk |-> readOk,
             interfered |-> FALSE]]
    /\ outcome' = [outcome EXCEPT ![p] = Idle]
    /\ UNCHANGED envVars

\* saveConversation from the upsert to the return of its setItem
SaveConversationWrite(p) ==
    /\ calls[p].op = "saveConversation"
    /\ \E writeOk \in BOOLEAN :
        LET updated == saveConversationModify(calls[p].conversations,
                                              calls[p].conversation)
        IN  /\ storage' = IF writeOk
                          THEN setItem(CONVERSATIONS_KEY, JSONstringify(updated))
                          ELSE storage
            /\ raised' = CatchAndRethrow(~writeOk)
            /\ outcome' = [outcome EXCEPT ![p] =
                   [op |-> "saveConversation", conversation |-> calls[p].conversation,
                    conversations |-> calls[p].conversations,
                    interfered |-> calls[p].interfered, at |-> now,
                    fault |-> Fault(calls[p].readOk, writeOk), threw |-> raised']]
            /\ calls' = AfterWriteBy(p, writeOk)
    /\ UNCHANGED now

\* deleteConversation up to its await of getConversations
DeleteConversationRead(p, conversationId) ==
    /\ calls[p].op = "idle"
    /\ \E readOk \in BOOLEAN :
        calls' = [calls EXCEPT ![p] =
            [op |-> "deleteConversation", conversationId |-> conversationId,
             conversations |-> getConversations(readOk), readOk |-> readOk,
             interfered |-> FALSE]]
    /\ outcome' = [outcome EXCEPT ![p] = Idle]
    /\ UNCHANGED envVars

\* deleteConversation from the filter to the return of its setItem
DeleteConversationWrite(p) ==
    /\ calls[p].op = "deleteConversation"
    /\ \E writeOk \in BOOLEAN :
        LET filtered == FilterOutId(calls[p].conversations, calls[p].conversationId)
        IN  /\ storage' = IF writeOk
                          THEN setItem(CONVERSATIONS_KEY, JSONstringify(filtered))
                          ELSE storage
            /\ raised' = CatchAndRethrow(~writeOk)
            /\ outcome' = [outcome EXCEPT ![p] =
                   [op |-> "deleteConversation",
                    conversationId |-> calls[p].conversationId,
                    conversations |-> calls[p].conversations,
                    interfered |-> calls[p].interfered,
                    fault |-> Fault(calls[p].readOk, writeOk), threw |-> raised']]
            /\ calls' = AfterWriteBy(p, writeOk)
    /\ UNCHANGED now

\* setCurrentConversationId: one setItem; a failed write is rethrown
SetCurrentConversationIdBy(p, conversationId) ==
    /\ calls[p].op = "idle"
    /\ \E writeOk \in BOOLEAN :
        /\ storage' = IF writeOk
                      THEN setItem(CURRENT_CONVERSATION_KEY, conversationId)
                      ELSE storage
        /\ raised' = CatchAndRethrow(~writeOk)
        /\ outcome' = [outcome EXCEPT ![p] =
               [op |-> "setCurrentConversationId", conversationId |-> conversationId,
                fault |-> Fault(TRUE, writeOk), threw |-> raised']]
    /\ UNCHANGED <<calls, now>>

\* setSelectedSystemPrompt called by p
SetSelectedSystemPromptBy(p, providerId, modelName, promptId) ==
    /\ calls[p].op = "idle"
    /\ \E writeOk \in BOOLEAN :
        /\ setSelectedSystemPromptWrite(providerId, modelName, promptId, writeOk)
        /\ outcome' = [outcome EXCEPT ![p] =
               [op |-> "setSelectedSystemPrompt", promptId |-> promptId,
                fault |-> Fault(TRUE, writeOk), threw |-> raised']]
    /\ UNCHANGED calls

-----------------------------------------------------------------------------
(* The chat screen: tables and helpers *)

\* AI_PROVIDERS: id, name (as the characters of the welcome message) and
\* defaultModel of each provider
AI_PROVIDERS ==
    << [id |-> "openai", name |-> <<"C", "h", "a", "t", "G", "P", "T">>,
        defaultModel |-> "gpt-3.5-turbo"],
       [id |-> "anthropic", name |-> <<"C", "l", "a", "u", "d", "e">>,
        defaultModel |-> "claude-3-haiku-20240307"],
       [id |-> "google", name |-> <<"G", "e", "m", "i", "n", "i">>,
        defaultModel |-> "gemini-pro"],
       [id |-> "groq", name |-> <<"G", "r", "o", "q">>,
        defaultModel |-> "mixtral-8x7b-32768"] >>

\* getProviderById: the provider in a one-element sequence, undefined when
\* the id is not in the table
getProviderById(id) ==
    IF FindIndexById(AI_PROVIDERS, id) # 0
    THEN Some(AI_PROVIDERS[FindIndexById(AI_PROVIDERS, id)])
    ELSE undefined

\* the value stored under a key of a store, null when the key is missing
ItemOf(store, key) == IF key \in DOMAIN store THEN Some(store[key]) ELSE null

\* a store after setItem(key, value)
WithItem(store, key, value) == (key :> value) @@ store

\* getConversations over a given store
conversationsIn(store, readOk) ==
    IF readOk /\ ItemOf(store, CONVERSATIONS_KEY) # null
    THEN LET parsed == ItemOf(store, CONVERSATIONS_KEY)[1]
         IN  [i \in 1..Len(parsed) |-> ReviveConversation(parsed[i])]
    ELSE << >>

\* the store after a whole saveConversation call whose read and write
\* succeed or fail as given; a call whose write fails throws
AfterSave(store, conversation, readOk, writeOk) ==
    IF writeOk
    THEN WithItem(store, CONVERSATIONS_KEY,
             JSONstringify(saveConversationModify(conversationsIn(store, readOk),
                                                  conversation)))
    ELSE store

\* getSelectedModel: the stored selected_model_<providerId> when there is a
\* non-empty one, otherwise provider?.defaultModel || ''
getSelectedModel(store, providerId, readOk) ==
    LET selectedModel == IF readOk THEN ItemOf(store, "selected_model_" \o providerId)
                         ELSE null
    IN  IF selectedModel # null /\ selectedModel[1] # ""
        THEN selectedModel[1]
        ELSE IF getProviderById(providerId) # undefined
             THEN getProviderById(providerId)[1].defaultModel
             ELSE ""

\* the title 'New Conversation'
NewConversationTitle ==
    <<"N", "e", "w", " ", "C", "o", "n", "v", "e", "r", "s", "a", "t", "i", "o", "n">>

\* the text of the welcome message for a provider name
WelcomeText(name) ==
    <<"H", "e", "l", "l", "o", "!", " ", "I", "'", "m", " ">>
    \o name \o
    <<",", " ", "y", "o", "u", "r", " ", "A", "I", " ", "a", "s", "s", "i",
      "s", "t", "a", "n", "t", ".", " ", "I", "'", "m", " ", "r", "e", "a",
      "d", "y", " ", "t", "o", " ", "h", "e", "l", "p", " ", "y", "o", "u",
      " ", "w", "i", "t", "h", " ", "q", "u", "e", "s", "t", "i", "o", "n",
      "s", ",", " ", "c", "r", "e", "a", "t", "i", "v", "e", " ", "w", "r",
      "i", "t", "i", "n", "g", ",", " ", "p", "r", "o", "b", "l", "e", "m",
      "-", "s", "o", "l", "v", "i", "n", "g", ",", " ", "a", "n", "d", " ",
      "m", "u", "c", "h", " ", "m", "o", "r", "e", ".", " ", "W", "h", "a",
      "t", " ", "w", "o", "u", "l", "d", " ", "y", "o", "u", " ", "l", "i",
      "k", "e", " ", "t", "o", " ", "t", "a", "l", "k", " ", "a", "b", "o",
      "u", "t", "?">>

\* Date.now().toString()
DateNowString == ToString(now)

-----------------------------------------------------------------------------
(* The chat screen: its functions, each over the state it closed over *)

\* variant: the message is stored as it is shown
WithoutTokens(message) == message

\* { ...message, tokens: estimateTokens(message.text) }
WithTokens(message) == [tokens |-> estimateTokens(message.text)] @@ message

\* the conversation saveMessageToConversation builds from the
\* currentConversation it closed over
updatedConversationWith(conversation, message) ==
    [conversation EXCEPT
        !.messages = Append(@, WithTokens(message)),
        !.updatedAt = Date(now),
        !.title = IF message.isUser /\ Len(conversation.messages) <= 1
                  THEN generateConversationTitle(message.text)
                  ELSE @]

\* loadConversations after an awaited call that threw or not: the list that
\* replaces the one in the state, undefined when the call threw
loadConversationsUnless(threw, store, readOk) ==
    IF threw THEN undefined ELSE Some(conversationsIn(store, readOk))

\* saveMessageToConversation: set the updated conversation, save it, reload
\* the list; a failed save is logged
saveMessageToConversation(conversation, message, store, readOk, writeOk, listOk) ==
    LET updatedConversation == updatedConversationWith(conversation, message)
        saved == AfterSave(store, updatedConversation, readOk, writeOk)
    IN  [currentConversation |-> Some(updatedConversation),
         store |-> saved,
         loaded |-> loadConversationsUnless(~writeOk, saved, listOk)]

\* `${provider?.name}` in the welcome message
ProviderNameText(providerId) ==
    IF getProviderById(providerId) # undefined
    THEN getProviderById(providerId)[1].name
    ELSE <<"u", "n", "d", "e", "f", "i", "n", "e", "d">>

welcomeMessage(providerId) ==
    [id |-> "1", text |-> WelcomeText(ProviderNameText(providerId)),
     isUser |-> FALSE, timestamp |-> Date(now)]

\* createNewConversation over the selectedProvider and currentSystemPrompt it
\* closed over: a failed write of the current id or a failed save ends the
\* function in its catch block, with the state set so far
createNewConversation(providerId, systemPrompt, store, modelOk, idWriteOk, readOk, writeOk, listOk) ==
    LET newConversation ==
            [id |-> DateNowString, title |-> NewConversationTitle, messages |-> << >>,
             providerId |-> providerId,
             modelName |-> getSelectedModel(store, providerId, modelOk),
             systemPrompt |-> systemPrompt,
             createdAt |-> Date(now), updatedAt |-> Date(now)]
        updatedConversation ==
            [newConversation EXCEPT
                !.messages = <<WithTokens(welcomeMessage(providerId))>>]
        withId == WithItem(store, CURRENT_CONVERSATION_KEY, newConversation.id)
        saved == AfterSave(withId, updatedConversation, readOk, writeOk)
    IN  IF ~idWriteOk
        THEN [currentConversation |-> Some(newConversation),
              chatMessages |-> << >>,
              store |-> store,
              loaded |-> undefined]
        ELSE [currentConversation |-> Some(updatedConversation),
              chatMessages |-> <<welcomeMessage(providerId)>>,
              store |-> saved,
              loaded |-> loadConversationsUnless(~writeOk, saved, listOk)]

\* the Message shown for a StoredMessage: its id, text, isUser and timestamp
shownMessage(msg) ==
    [id |-> msg.id, text |-> msg.text, isUser |-> msg.isUser,
     timestamp |-> msg.timestamp]

\* variant: conversations[0]
findConversationFirst(list, id) ==
    IF list # << >> THEN Some(list[1]) ELSE undefined

\* conversations.find(c => c.id === currentId)
findConversation(list, id) ==
    IF FindIndexById(list, id) # 0 THEN Some(list[FindIndexById(list, id)])
    ELSE undefined

\* loadOrCreateCurrentConversation: the stored conversation with the
\* persisted current id, or a new conversation
loadOrCreateCurrentConversation(providerId, systemPrompt, store, idReadOk, findOk, modelOk, idWriteOk, readOk, writeOk, listOk) ==
    LET currentId == IF idReadOk THEN ItemOf(store, CURRENT_CONVERSATION_KEY) ELSE null
        conversation ==
            IF currentId # null /\ currentId[1] # ""
            THEN findConversation(conversationsIn(store, findOk), currentId[1])
            ELSE undefined
    IN  IF conversation # undefined
        THEN [currentConversation |-> conversation,
              chatMessages |->
                  [i \in 1..Len(conversation[1].messages) |->
                      shownMessage(conversation[1].messages[i])],
              store |-> store,
              loaded |-> undefined]
        ELSE createNewConversation(providerId, systemPrompt, store, modelOk,
                                   idWriteOk, readOk, writeOk, listOk)

\* the providers with a non-empty stored API key
storedApiKeys(store) ==
    {AI_PROVIDERS[i].id : i \in
        {j \in 1..Len(AI_PROVIDERS) :
            /\ ItemOf(store, AI_PROVIDERS[j].id \o "_api_key") # null
            /\ ItemOf(store, AI_PROVIDERS[j].id \o "_api_key")[1] # ""}}

\* loadUserSettings: the API keys, and the saved provider with its selected
\* model when the saved provider is in the table; nothing when a read fails
loadUserSettings(store, readOk, modelOk) ==
    LET savedProvider == ItemOf(store, "selected_provider")
        known == /\ savedProvider # null
                 /\ getProviderById(savedProvider[1]) # undefined
    IN  IF ~readOk
        THEN [apiKeys |-> apiKeys, selectedProvider |-> selectedProvider,
              currentModel |-> currentModel]
        ELSE [apiKeys |-> storedApiKeys(store),
              selectedProvider |-> IF known THEN savedProvider[1] ELSE selectedProvider,
              currentModel |-> IF known
                               THEN getSelectedModel(store, savedProvider[1], modelOk)
                               ELSE currentModel]

\* getSelectedSystemPrompt over a given store
selectedSystemPromptIn(store, providerId, modelName, idReadOk, promptsOk) ==
    LET promptId == IF idReadOk
                    THEN ItemOf(store, SelectedPromptKey(providerId, modelName))
                    ELSE null
        custom == IF promptsOk /\ ItemOf(store, SYSTEM_PROMPTS_KEY) # null
                  THEN ItemOf(store, SYSTEM_PROMPTS_KEY)[1]
                  ELSE << >>
    IN  IF promptId # null /\ promptId[1] # ""
        THEN PromptTextOrDefault(DEFAULT_SYSTEM_PROMPTS \o custom, promptId[1])
        ELSE DEFAULT_SYSTEM_PROMPTS[1].prompt

\* variant: the system turn is always first
conversationHistoryWithSystem(trimmedMessages, systemPrompt) ==
    <<[role |-> "system", content |-> systemPrompt]>>
    \o [i \in 1..Len(trimmedMessages) |->
           [role |-> IF trimmedMessages[i].isUser THEN "user" ELSE "assistant",
            content |-> trimmedMessages[i].text]]

\* conversationHistory of sendMessage: the system turn when the prompt is
\* not empty, then one turn per trimmed message
conversationHistory(trimmedMessages, systemPrompt) ==
    (IF systemPrompt # ""
     THEN <<[role |-> "system", content |-> systemPrompt]>>
     ELSE << >>)
    \o [i \in 1..Len(trimmedMessages) |->
           [role |-> IF trimmedMessages[i].isUser THEN "user" ELSE "assistant",
            content |-> trimmedMessages[i].text]]

-----------------------------------------------------------------------------
(* The chat screen: its handlers and effects *)

ChatFrame ==
    UNCHANGED <<estimateVars, titleVars, trimVars, getVars, prefVars, storeVars,
                now, raised>>

\* the list of the sidebar after a function that may have reloaded it
Reloaded(loaded) == IF loaded # undefined THEN loaded[1] ELSE chatConversations

\* the condition of the auto-save effect of a render with the given input
\* and conversation: the input is not blank and the conversation has exactly
\* one message
autoSaves(text, conversation) ==
    /\ Trim(text) # << >>
    /\ conversation # null
    /\ Len(conversation[1].messages) = 1

\* saveInitialChat of the auto-save effect, run after the render that changed
\* the input or the conversation: the store after the save of that
\* conversation
saveInitialChat(store, text, conversation) ==
    IF autoSaves(text, conversation)
    THEN AfterSave(store, conversation[1], TRUE, TRUE)
    ELSE store

\* the list of the sidebar after the auto-save effect, which reloads it
\* after its save
AutoSaveReloaded(list, store, text, conversation) ==
    IF autoSaves(text, conversation) THEN conversationsIn(store, TRUE) ELSE list

\* the effect on [selectedProvider, currentModel]: it starts loadSystemPrompt
\* when both are set
loadSystemPromptOf(providerId, modelName) ==
    IF providerId # "" /\ modelName # ""
    THEN {[effect |-> "loadSystemPrompt", providerId |-> providerId,
           modelName |-> modelName]}
    ELSE {}

\* initializeApp, run by the effect of the first render over the state of
\* that render, each of its storage calls succeeding or failing as given
initializeApp(settingsOk, modelOk, listOk, idReadOk, findOk, idWriteOk, readOk, writeOk) ==
    /\ chatPc = "mounted"
    /\ LET settings == loadUserSettings(storage, settingsOk, modelOk)
            current == loadOrCreateCurrentConversation(
                           selectedProvider, currentSystemPrompt, storage,
                           idReadOk, findOk, modelOk, idWriteOk, readOk, writeOk, listOk)
        IN  /\ apiKeys' = settings.apiKeys
            /\ selectedProvider' = settings.selectedProvider
            /\ currentModel' = settings.currentModel
            /\ currentConversation' = current.currentConversation
            /\ chatMessages' = current.chatMessages
            /\ storage' = current.store
            /\ chatConversations' =
                   IF current.loaded # undefined THEN current.loaded[1]
                   ELSE conversationsIn(storage, listOk)
            /\ pendingEffects' =
                   IF <<settings.selectedProvider, settings.currentModel>>
                          # <<selectedProvider, currentModel>>
                   THEN loadSystemPromptOf(settings.selectedProvider,
                                           settings.currentModel)
                   ELSE {}
    /\ chatPc' = "ready"
    /\ UNCHANGED <<currentSystemPrompt, inputText, isLoading, send, handed,
                   firstSent, switched>>
    /\ ChatFrame

\* initializeApp when any of its storage calls may fail
InitializeApp ==
    \E settingsOk \in BOOLEAN, modelOk \in BOOLEAN, listOk \in BOOLEAN,
       idReadOk \in BOOLEAN, findOk \in BOOLEAN, idWriteOk \in BOOLEAN,
       readOk \in BOOLEAN, writeOk \in BOOLEAN :
        initializeApp(settingsOk, modelOk, listOk, idReadOk, findOk, idWriteOk,
                      readOk, writeOk)

\* initializeApp when all its storage calls succeed
InitializeAppReliably ==
    initializeApp(TRUE, TRUE, TRUE, TRUE, TRUE, TRUE, TRUE, TRUE)

\* loadSystemPrompt started by the effect: getSelectedSystemPrompt for the
\* pair of the render that started it
LoadSystemPrompt ==
    /\ \E e \in pendingEffects :
        /\ e.effect = "loadSystemPrompt"
        /\ currentSystemPrompt' = selectedSystemPromptIn(
               storage, e.providerId, e.modelName, TRUE, TRUE)
        /\ pendingEffects' = pendingEffects \ {e}
    /\ UNCHANGED <<selectedProvider, apiKeys, currentModel, currentConversation,
                   chatConversations, chatMessages, inputText, isLoading,
                   chatPc, send, handed, firstSent, switched, storage>>
    /\ ChatFrame

\* onChangeText={setInputText}, and the auto-save effect of the render that
\* follows
ChangeText(text) ==
    /\ chatPc = "ready"
    /\ text # inputText
    /\ inputText' = text
    /\ storage' = saveInitialChat(storage, text, currentConversation)
    /\ chatConversations' =
           AutoSaveReloaded(chatConversations, storage', text, currentConversation)
    /\ UNCHANGED <<selectedProvider, apiKeys, currentModel, currentSystemPrompt,
                   currentConversation, chatMessages, isLoading,
                   chatPc, pendingEffects, send, handed, firstSent, switched>>
    /\ ChatFrame

\* Storage calls made after initializeApp succeed.

\* variant: the send button is disabled only while the input is blank
sendDisabledWhenBlank(text, loading) == Trim(text) = << >>

\* disabled={!inputText.trim() || isLoading} of the send button
sendDisabled(text, loading) == Trim(text) = << >> \/ loading

\* sendMessage up to its await of the provider: the user message is shown
\* and saved, the context is trimmed for currentModel, and the provider is
\* called with the model getSelectedModel returns
sendMessage(readOk, writeOk, listOk, modelOk) ==
    /\ chatPc = "ready"
    /\ ~sendDisabled(inputText, isLoading)
    /\ Trim(inputText) # << >>
    /\ currentConversation # null
    /\ selectedProvider \in apiKeys
    /\ getProviderById(selectedProvider) # undefined
    /\ Len(chatMessages) < MaxShown
    /\ LET userMessage == [id |-> DateNowString, text |-> Trim(inputText),
                            isUser |-> TRUE, timestamp |-> Date(now)]
            saved == saveMessageToConversation(currentConversation[1], userMessage,
                                               storage, readOk, writeOk, listOk)
            conversationMessages ==
                Append(currentConversation[1].messages, WithTokens(userMessage))
            trimmedMessages ==
                trimContext(conversationMessages, currentModel,
                            Some(currentSystemPrompt), undefined)
            selectedModel == getSelectedModel(saved.store, selectedProvider, modelOk)
        IN  /\ chatMessages' = Append(chatMessages, userMessage)
            /\ currentConversation' = saved.currentConversation
            /\ storage' = saved.store
            /\ chatConversations' = Reloaded(saved.loaded)
            /\ send' = [op |-> "sendMessage",
                        currentConversation |-> currentConversation[1],
                        userMessage |-> userMessage]
            /\ handed' = Some(
                   [providerId |-> selectedProvider,
                    conversationHistory |->
                        conversationHistory(trimmedMessages, currentSystemPrompt),
                    selectedModel |-> selectedModel,
                    trimmedFor |-> currentModel,
                    systemPrompt |-> currentSystemPrompt,
                    conversationMessages |-> conversationMessages,
                    inputText |-> inputText,
                    storedBefore |-> conversationsIn(storage, TRUE),
                    overlapped |-> send # Idle,
                    userMessageWritten |-> writeOk,
                    outcome |-> "pending"])
            /\ firstSent' =
                   IF currentConversation[1].id \in DOMAIN firstSent THEN firstSent
                   ELSE (currentConversation[1].id :> userMessage.text) @@ firstSent
    /\ inputText' = << >>
    /\ isLoading' = TRUE
    /\ UNCHANGED <<selectedProvider, apiKeys, currentModel, currentSystemPrompt,
                   chatPc, pendingEffects, switched>>
    /\ ChatFrame

\* sendMessage when every storage call it makes succeeds
SendMessage == sendMessage(TRUE, TRUE, TRUE, TRUE)

\* variant: setIsLoading(false) is the last statement of the try block
isLoadingAfterTry(threw) == threw

\* finally { setIsLoading(false) }: runs whether the try block threw or not
isLoadingAfterSend(threw) == FALSE

\* the rest of sendMessage once the provider call returned (isError FALSE)
\* or threw (isError TRUE): the message is shown and saved with the
\* saveMessageToConversation of the render that started the call, whose
\* storage calls succeed or fail
sendMessageResumes(content, isError, readOk, writeOk, listOk) ==
    /\ send # Idle
    /\ LET answer == [id |-> DateNowString \o (IF isError THEN "_error" ELSE "_ai"),
                       text |-> content, isUser |-> FALSE, timestamp |-> Date(now)]
            saved == saveMessageToConversation(send.currentConversation, answer,
                                               storage, readOk, writeOk, listOk)
        IN  /\ chatMessages' = Append(chatMessages, answer)
            /\ currentConversation' = saved.currentConversation
            /\ storage' = saveInitialChat(saved.store, inputText,
                                          saved.currentConversation)
            /\ chatConversations' =
                   AutoSaveReloaded(Reloaded(saved.loaded), storage', inputText,
                                    saved.currentConversation)
            /\ handed' = Some([handed[1] EXCEPT
                   !.outcome = IF isError THEN "error" ELSE "reply"])
    /\ isLoading' = isLoadingAfterSend(isError)
    /\ send' = Idle
    /\ UNCHANGED <<selectedProvider, apiKeys, currentModel, currentSystemPrompt,
                   inputText, chatPc, pendingEffects, firstSent, switched>>
    /\ ChatFrame

\* the rest of sendMessage when every storage call it makes succeeds
ProviderAnswers(content, isError) ==
    sendMessageResumes(content, isError, TRUE, TRUE, TRUE)

\* selectSystemPrompt over the state of the render that handled the press; a
\* failed setSelectedSystemPrompt ends it in its catch block with nothing
\* changed
SelectSystemPrompt(promptId) ==
    /\ chatPc = "ready"
    /\ LET selected == WithItem(storage,
                            SelectedPromptKey(selectedProvider, currentModel), promptId)
            prompt == selectedSystemPromptIn(selected, selectedProvider, currentModel,
                                             TRUE, TRUE)
            updatedConversation ==
                [currentConversation[1] EXCEPT !.systemPrompt = currentSystemPrompt,
                                               !.updatedAt = Date(now)]
        IN  /\ currentSystemPrompt' = prompt
            /\ currentConversation' =
                   IF currentConversation # null THEN Some(updatedConversation)
                   ELSE null
            /\ storage' =
                   saveInitialChat(
                       IF currentConversation # null
                       THEN AfterSave(selected, updatedConversation, TRUE, TRUE)
                       ELSE selected,
                       inputText, currentConversation')
            /\ chatConversations' =
                   AutoSaveReloaded(chatConversations, storage', inputText,
                                    currentConversation')
            /\ switched' = Some(
                   [promptId |-> promptId, before |-> currentSystemPrompt,
                    prompt |-> prompt, conversation |-> currentConversation])
    /\ UNCHANGED <<selectedProvider, apiKeys, currentModel,
                   chatMessages, inputText, isLoading, chatPc, pendingEffects,
                   send, handed, firstSent>>
    /\ ChatFrame

\* switchToConversation for a conversation of the sidebar list, and the
\* auto-save effect of the render that follows
SwitchToConversation(conversation) ==
    /\ chatPc = "ready"
    /\ currentConversation' = Some(conversation)
    /\ chatMessages' = [i \in 1..Len(conversation.messages) |->
                           shownMessage(conversation.messages[i])]
    /\ storage' = saveInitialChat(
                      WithItem(storage, CURRENT_CONVERSATION_KEY, conversation.id),
                      inputText, currentConversation')
    /\ chatConversations' =
           AutoSaveReloaded(chatConversations, storage', inputText,
                            currentConversation')
    /\ UNCHANGED <<selectedProvider, apiKeys, currentModel, currentSystemPrompt,
                   inputText, isLoading, chatPc, pendingEffects, send, handed,
                   firstSent, switched>>
    /\ ChatFrame

\* the models screen stores another selected model for a provider
SelectModelInSettings(providerId, modelName) ==
    /\ ItemOf(storage, "selected_model_" \o providerId) # Some(modelName)
    /\ storage' = WithItem(storage, "selected_model_" \o providerId, modelName)
    /\ UNCHANGED <<chatVars, now, raised>>
    /\ UNCHANGED <<estimateVars, titleVars, trimVars, getVars, prefVars, storeVars>>

-----------------------------------------------------------------------------
(* Inputs of the pure functions *)

MessageTexts == {Chars("a", 0), Chars("a", 5)}

\* the StoredMessage shapes without id and timestamp: tokens absent, or cached
\* by the caller as estimateTokens(text)
MessageShapes ==
    {[text |-> t, isUser |-> u] : t \in MessageTexts, u \in BOOLEAN}
    \cup {[text |-> t, isUser |-> u, tokens |-> estimateTokens(t)] :
             t \in MessageTexts, u \in BOOLEAN}

\* ids and timestamps follow the position in the conversation
Stamp(shapes) ==
    [i \in 1..Len(shapes) |-> shapes[i] @@ [id |-> i, timestamp |-> i]]

MessageLists(maxLen) ==
    {Stamp(shapes) : shapes \in UNION {[1..n -> MessageShapes] : n \in 0..maxLen}}

\* lists of user messages without cached tokens
UncachedUserMessageLists(maxLen) ==
    {list \in MessageLists(maxLen) :
        \A i \in 1..Len(list) : list[i].isUser /\ "tokens" \notin DOMAIN list[i]}

\* two table entries with different capacities, an unknown model (its budget
\* is floor(0.8 * 4096) = 3276), and a name that Object.prototype defines
TrimModelNames == {"gpt-3.5-turbo", "gpt-4", "unknown-model-xyz", "constructor"}

\* prompts of 0, 6 and 87 characters, and prompts that leave 2, 0 and -1
\* tokens of the 3276 tokens of a 4096-token model
SystemPromptArgs ==
    {undefined, Some(""), Some("Be kind"), Some(DEFAULT_SYSTEM_PROMPTS[1].prompt),
     Some(Repeat("x", 13096)), Some(Repeat("x", 13101)), Some(Repeat("x", 13105))}

MaxTokensArgs == {undefined, Some(0), Some(1), Some(3), Some(5), Some(-1)}

-----------------------------------------------------------------------------
(* Calls of trimContext *)

InitEstimateIdle ==
    /\ textA = << >> /\ textB = << >>
    /\ estimateA = undefined /\ estimateB = undefined
    /\ modelArg = "" /\ limitResult = undefined

InitTitleIdle == firstMessage = << >> /\ title = undefined

InitTrimIdle ==
    /\ inMessages = << >> /\ inModelName = "" /\ inSystemPrompt = undefined
    /\ inMaxTokens = undefined /\ trimResults = << >> /\ otherResult = undefined

InitEnv == now = 0 /\ storage = << >> /\ raised = FALSE

InitGetIdle ==
    /\ getPc = "idle" /\ getArgs = undefined
    /\ storedPromptId = undefined /\ selectedPrompt = undefined

InitPrefIdle == lastWritten = << >>

InitStoreIdle ==
    /\ calls = [p \in Callers |-> Idle]
    /\ outcome = [p \in Callers |-> Idle]

\* the chat screen is not mounted
InitChatIdle ==
    /\ selectedProvider = "" /\ apiKeys = {} /\ currentModel = ""
    /\ currentSystemPrompt = "" /\ currentConversation = null
    /\ chatConversations = << >> /\ chatMessages = << >> /\ inputText = << >>
    /\ isLoading = FALSE
    /\ chatPc = "unmounted" /\ pendingEffects = {} /\ send = Idle
    /\ handed = undefined /\ firstSent = << >> /\ switched = undefined

InitAppIdle == InitPrefIdle /\ InitStoreIdle /\ InitChatIdle

\* a caller invokes trimContext with the arguments under study; the entry
\* added to trimResults notes the clock, the store and the latest other call
\* at the time of the call
CallTrimContext(maxCalls) ==
    /\ Len(trimResults) < maxCalls
    /\ trimResults' = Append(trimResults,
           [result |-> trimContext(inMessages, inModelName, inSystemPrompt, inMaxTokens),
            now |-> now, storage |-> storage, other |-> otherResult])
    /\ UNCHANGED <<inMessages, inModelName, inSystemPrompt, inMaxTokens, otherResult>>
    /\ UNCHANGED <<estimateVars, titleVars, envVars, getVars, appVars>>

InitTrim ==
    /\ inMessages \in MessageLists(MaxMsgs)
    /\ inModelName \in TrimModelNames
    /\ inSystemPrompt \in SystemPromptArgs
    /\ inMaxTokens \in MaxTokensArgs
    /\ trimResults = << >> /\ otherResult = undefined
    /\ InitEstimateIdle /\ InitTitleIdle /\ InitEnv /\ InitGetIdle /\ InitAppIdle

NextTrim == CallTrimContext(1)

SpecTrim == InitTrim /\ [][NextTrim]_vars

-----------------------------------------------------------------------------
(* Calls of estimateTokens and getContextLimit *)

EstimateTexts == {Chars("a", n) : n \in 0..MaxTextLen}

\* every key of the table, and names that are not keys: the empty string, an
\* unknown model, a key in another case, a key with a trailing space, a prefix
\* of a key, and two names that Object.prototype defines
ContextLimitModelNames ==
    DOMAIN MODEL_CONTEXT_LIMITS
    \cup {"", "unknown-model-xyz", "GPT-4", "gpt-4 ", "gpt", "constructor", "toString"}

CallEstimateTokens ==
    /\ estimateA = undefined
    /\ estimateA' = Some(estimateTokens(textA))
    /\ estimateB' = Some(estimateTokens(textB))
    /\ UNCHANGED <<textA, textB, modelArg, limitResult>>
    /\ UNCHANGED <<titleVars, trimVars, envVars, getVars, appVars>>

CallGetContextLimit ==
    /\ limitResult = undefined
    /\ limitResult' = Some(getContextLimit(modelArg))
    /\ UNCHANGED <<textA, textB, estimateA, estimateB, modelArg>>
    /\ UNCHANGED <<titleVars, trimVars, envVars, getVars, appVars>>

InitEstimate ==
    /\ textA \in EstimateTexts /\ textB \in EstimateTexts
    /\ modelArg \in ContextLimitModelNames
    /\ estimateA = undefined /\ estimateB = undefined /\ limitResult = undefined
    /\ InitTitleIdle /\ InitTrimIdle /\ InitEnv /\ InitGetIdle /\ InitAppIdle

NextEstimate == CallEstimateTokens \/ CallGetContextLimit

SpecEstimate == InitEstimate /\ [][NextEstimate]_vars

-----------------------------------------------------------------------------
(* Calls of generateConversationTitle *)

WhiteSpaceRuns == {<< >>, <<" ">>, <<"\n">>, <<"\n", " ">>}

\* n letters, the one at position p (if any) replaced by a newline
Body(n, p) == [i \in 1..n |-> IF i = p THEN "\n" ELSE "a"]

TitleInputs ==
    {lead \o Body(n, p) \o trail :
        lead \in WhiteSpaceRuns, trail \in WhiteSpaceRuns,
        n \in 0..MaxTitleInputLen, p \in {0, 2, 47, 48, 50}}

CallGenerateConversationTitle ==
    /\ title = undefined
    /\ title' = Some(generateConversationTitle(firstMessage))
    /\ UNCHANGED firstMessage
    /\ UNCHANGED <<estimateVars, trimVars, envVars, getVars, appVars>>

InitTitle ==
    /\ firstMessage \in TitleInputs
    /\ title = undefined
    /\ InitEstimateIdle /\ InitTrimIdle /\ InitEnv /\ InitGetIdle /\ InitAppIdle

NextTitle == CallGenerateConversationTitle

SpecTitle == InitTitle /\ [][NextTitle]_vars

-----------------------------------------------------------------------------
(* Calls of trimContext while the clock and the store change *)

\* another caller invokes trimContext with other arguments
CallOtherTrimContext ==
    /\ otherResult' = Some(trimContext(inMessages, "gpt-3.5-turbo", undefined, Some(1)))
    /\ UNCHANGED <<inMessages, inModelName, inSystemPrompt, inMaxTokens, trimResults>>
    /\ UNCHANGED <<estimateVars, titleVars, envVars, getVars, appVars>>

ClockTicks == Tick /\ UNCHANGED <<estimateVars, titleVars, trimVars, getVars, appVars>>

SelectPromptMeanwhile ==
    /\ setSelectedSystemPrompt("openai", "gpt-4", "creative")
    /\ UNCHANGED <<estimateVars, titleVars, trimVars, getVars, appVars>>

InitTrimEnv ==
    /\ inMessages \in UncachedUserMessageLists(MaxMsgs)
    /\ inModelName \in {"gpt-4", "unknown-model-xyz"}
    /\ inSystemPrompt \in {undefined, Some("Be kind")}
    /\ inMaxTokens \in {undefined, Some(3)}
    /\ trimResults = << >> /\ otherResult = undefined
    /\ InitEstimateIdle /\ InitTitleIdle /\ InitEnv /\ InitGetIdle /\ InitAppIdle

NextTrimEnv ==
    \/ CallTrimContext(MaxCalls)
    \/ CallOtherTrimContext
    \/ ClockTicks
    \/ SelectPromptMeanwhile

SpecTrimEnv == InitTrimEnv /\ [][NextTrimEnv]_vars

-----------------------------------------------------------------------------
(* The system prompt catalog over the store *)

\* a provider with one of its models, and a provider with its default model
\* and with a custom model
ProviderModelPairs ==
    {<<"openai", "gpt-4">>, <<"groq", "mixtral-8x7b-32768">>, <<"groq", "my_model">>}

\* a built-in prompt, a custom prompt and the empty id
SelectablePromptIds == {"creative", "custom1", ""}

\* a custom prompt, and the same prompt edited to an empty text
CustomPrompts ==
    {[id |-> "custom1", name |-> "Brief", prompt |-> "Be brief.", isDefault |-> FALSE],
     [id |-> "custom1", name |-> "Brief", prompt |-> "", isDefault |-> FALSE]}

SelectPrompt ==
    /\ \E pair \in ProviderModelPairs, promptId \in SelectablePromptIds :
        setSelectedSystemPrompt(pair[1], pair[2], promptId)
    /\ UNCHANGED <<estimateVars, titleVars, trimVars, getVars, appVars>>

SavePrompt ==
    /\ \E prompt \in CustomPrompts : saveSystemPrompt(prompt)
    /\ UNCHANGED <<estimateVars, titleVars, trimVars, getVars, appVars>>

DeletePrompt ==
    /\ \E promptId \in {p.id : p \in CustomPrompts} : deleteSystemPrompt(promptId)
    /\ UNCHANGED <<estimateVars, titleVars, trimVars, getVars, appVars>>

GetSelectedPromptReadId ==
    /\ \E pair \in ProviderModelPairs :
        getSelectedSystemPromptReadId(pair[1], pair[2])
    /\ UNCHANGED <<estimateVars, titleVars, trimVars, envVars, appVars>>

GetSelectedPromptResolve ==
    /\ getSelectedSystemPromptResolve
    /\ UNCHANGED <<estimateVars, titleVars, trimVars, envVars, appVars>>

InitPrompts ==
    InitEstimateIdle /\ InitTitleIdle /\ InitTrimIdle /\ InitEnv /\ InitGetIdle /\ InitAppIdle

NextPrompts ==
    \/ SelectPrompt
    \/ SavePrompt
    \/ DeletePrompt
    \/ GetSelectedPromptReadId
    \/ GetSelectedPromptResolve

SpecPrompts == InitPrompts /\ [][NextPrompts]_vars

-----------------------------------------------------------------------------
(* The selected-prompt preference per (provider, model) pair *)

\* pairs of a provider id and a model name: a built-in provider with one of
\* its models, a provider with a custom model, and a pair whose provider id
\* contains the separator
PreferencePairs ==
    {<<"openai", "gpt-4">>, <<"groq", "my_model">>, <<"groq_my", "model">>}

\* ids of prompts that exist: two built-in prompts
ExistingPromptIds == {"creative", "technical"}

\* a setSelectedSystemPrompt call made while no read is in progress;
\* lastWritten notes the id when the write succeeded
SelectPromptFor ==
    /\ getPc = "idle"
    /\ \E pair \in PreferencePairs, promptId \in ExistingPromptIds :
        /\ setSelectedSystemPrompt(pair[1], pair[2], promptId)
        /\ lastWritten' = IF raised' THEN lastWritten
                          ELSE (pair :> promptId) @@ lastWritten
    /\ UNCHANGED <<estimateVars, titleVars, trimVars, getVars, storeVars, chatVars>>

GetSelectedPromptForReadId ==
    /\ \E pair \in PreferencePairs :
        getSelectedSystemPromptReadId(pair[1], pair[2])
    /\ UNCHANGED <<estimateVars, titleVars, trimVars, envVars, appVars>>

InitPreferences ==
    InitEstimateIdle /\ InitTitleIdle /\ InitTrimIdle /\ InitEnv /\ InitGetIdle /\ InitAppIdle

NextPreferences ==
    \/ SelectPromptFor
    \/ GetSelectedPromptForReadId
    \/ GetSelectedPromptResolve

SpecPreferences == InitPreferences /\ [][NextPreferences]_vars

-----------------------------------------------------------------------------
(* Calls of the conversation store *)

StoreConversationIds == {"101", "102"}

\* a stored message with its cached token count
StoreMessage ==
    [id |-> "1", text |-> Chars("a", 5), isUser |-> FALSE,
     timestamp |-> Date(0), tokens |-> estimateTokens(Chars("a", 5))]

\* the conversations a caller can hold when the clock shows t: created at 0,
\* last stamped by the caller at some time up to t
StoreConversations(t) ==
    {[id |-> id, title |-> ttl, messages |-> <<StoreMessage>>,
      providerId |-> "openai", modelName |-> "gpt-3.5-turbo",
      createdAt |-> Date(0), updatedAt |-> Date(u)] :
        id \in StoreConversationIds,
        ttl \in {NewConversationTitle, Chars("a", 2)},
        u \in 0..t}

StoreUnchanged ==
    UNCHANGED <<estimateVars, titleVars, trimVars, getVars, prefVars, chatVars>>

\* the caller whose calls run one after the other
StoreCaller == "first"

GetConversations ==
    /\ GetConversationsBy(StoreCaller)
    /\ StoreUnchanged

SaveConversationReads ==
    /\ \E conversation \in StoreConversations(now) :
        SaveConversationRead(StoreCaller, conversation)
    /\ StoreUnchanged

SaveConversationWrites ==
    /\ SaveConversationWrite(StoreCaller)
    /\ StoreUnchanged

DeleteConversationReads ==
    /\ \E conversationId \in StoreConversationIds :
        DeleteConversationRead(StoreCaller, conversationId)
    /\ StoreUnchanged

DeleteConversationWrites ==
    /\ DeleteConversationWrite(StoreCaller)
    /\ StoreUnchanged

SetCurrentConversationId ==
    /\ \E conversationId \in StoreConversationIds :
        SetCurrentConversationIdBy(StoreCaller, conversationId)
    /\ StoreUnchanged

SetSelectedSystemPrompt ==
    /\ SetSelectedSystemPromptBy(StoreCaller, "openai", "gpt-3.5-turbo", "creative")
    /\ StoreUnchanged

StoreClockTicks ==
    /\ Tick
    /\ UNCHANGED <<estimateVars, titleVars, trimVars, getVars, appVars>>

InitStore ==
    InitEstimateIdle /\ InitTitleIdle /\ InitTrimIdle /\ InitEnv /\ InitGetIdle /\ InitAppIdle

NextStore ==
    \/ GetConversations
    \/ SaveConversationReads
    \/ SaveConversationWrites
    \/ DeleteConversationReads
    \/ DeleteConversationWrites
    \/ SetCurrentConversationId
    \/ SetSelectedSystemPrompt
    \/ StoreClockTicks

SpecStore == InitStore /\ [][NextStore]_vars

-----------------------------------------------------------------------------
(* Two callers saving conversations at the same time *)

\* the conversations the two callers save: untitled ones
UntitledConversations ==
    {c \in StoreConversations(now) : c.title = NewConversationTitle}

ConcurrentSaveReads ==
    /\ \E p \in Callers, conversation \in UntitledConversations :
        SaveConversationRead(p, conversation)
    /\ StoreUnchanged

ConcurrentSaveWrites ==
    /\ \E p \in Callers : SaveConversationWrite(p)
    /\ StoreUnchanged

InitSaves == InitStore

NextSaves == ConcurrentSaveReads \/ ConcurrentSaveWrites

SpecSaves == InitSaves /\ [][NextSaves]_vars

-----------------------------------------------------------------------------
(* Two callers saving and deleting conversations at the same time *)

ConcurrentDeleteReads ==
    /\ \E p \in Callers, conversationId \in StoreConversationIds :
        DeleteConversationRead(p, conversationId)
    /\ StoreUnchanged

ConcurrentDeleteWrites ==
    /\ \E p \in Callers : DeleteConversationWrite(p)
    /\ StoreUnchanged

InitInterleaved == InitStore

NextInterleaved ==
    \/ ConcurrentSaveReads
    \/ ConcurrentSaveWrites
    \/ ConcurrentDeleteReads
    \/ ConcurrentDeleteWrites

SpecInterleaved == InitInterleaved /\ [][NextInterleaved]_vars

-----------------------------------------------------------------------------
(* The chat screen from its first render *)

\* a conversation left by an earlier session: created one tick before this
\* one, with its welcome message
PreviousConversation ==
    [id |-> "-1", title |-> NewConversationTitle,
     messages |-> <<[id |-> "1", text |-> WelcomeText(ProviderNameText("openai")),
                     isUser |-> FALSE, timestamp |-> Date(-1),
                     tokens |-> estimateTokens(WelcomeText(ProviderNameText("openai")))]>>,
     providerId |-> "openai", modelName |-> "gpt-3.5-turbo", systemPrompt |-> "",
     createdAt |-> Date(-1), updatedAt |-> Date(-1)]

\* the stored API keys: none, or one for openai and one for groq
StoredKeys ==
    {<< >>,
     [openai_api_key |-> "sk-1", groq_api_key |-> "gsk-1"]}

\* a custom prompt that leaves 2 tokens of the 3276 tokens of a model with
\* the default context limit
LongPrompt ==
    [id |-> "long", name |-> "Long", prompt |-> Repeat("x", 13096),
     isDefault |-> FALSE]

\* the stored preferences: no saved provider; groq; groq with a custom model
\* and the long prompt selected for it
StoredPreferences ==
    {<< >>,
     [selected_provider |-> "groq"],
     [selected_provider |-> "groq", selected_model_groq |-> "my_model",
      custom_system_prompts |-> <<LongPrompt>>,
      system_prompt_groq_my_model |-> "long"]}

\* the stored conversations: none; one that is current; one and a current id
\* that matches none; one and no current id
StoredChats ==
    {<< >>,
     [stored_conversations |-> JSONstringify(<<PreviousConversation>>),
      current_conversation_id |-> "-1"],
     [stored_conversations |-> JSONstringify(<<PreviousConversation>>),
      current_conversation_id |-> "-2"],
     [stored_conversations |-> JSONstringify(<<PreviousConversation>>)]}

\* what the user types: nothing, a text with white space around it, a text
\* of more than 50 characters
ChatInputs ==
    {<< >>, <<" ", "h", "i", "\n">>, Chars("a", 51)}

\* what the provider answers, and the message of the error it throws
AnswerTexts == {<<"o", "k">>}

ErrorTexts == {<<"4", "0", "1">>}

\* the first render: the initial values of the useState calls, over a store
\* left by earlier sessions
FirstRender ==
    /\ InitEstimateIdle /\ InitTitleIdle /\ InitTrimIdle /\ InitGetIdle
    /\ InitPrefIdle /\ InitStoreIdle
    /\ now = 0 /\ raised = FALSE
    /\ selectedProvider = "openai" /\ apiKeys = {} /\ currentModel = ""
    /\ currentSystemPrompt = "" /\ currentConversation = null
    /\ chatConversations = << >> /\ chatMessages = << >> /\ inputText = << >>
    /\ isLoading = FALSE
    /\ chatPc = "mounted" /\ pendingEffects = {} /\ send = Idle
    /\ handed = undefined /\ firstSent = << >> /\ switched = undefined

\* the store of a user who has entered API keys
InitChat ==
    /\ FirstRender
    /\ \E preferences \in StoredPreferences,
          chats \in {<< >>, [stored_conversations |-> JSONstringify(<<PreviousConversation>>),
                             current_conversation_id |-> "-1"]} :
        storage = [openai_api_key |-> "sk-1", groq_api_key |-> "gsk-1"]
                  @@ preferences @@ chats

\* any store left by earlier sessions
InitStartup ==
    /\ FirstRender
    /\ \E keys \in StoredKeys, preferences \in StoredPreferences, chats \in StoredChats :
        storage = keys @@ preferences @@ chats

ChangesText == \E text \in ChatInputs : ChangeText(text)

ProviderReplies == \E content \in AnswerTexts : ProviderAnswers(content, FALSE)

ProviderFails == \E content \in ErrorTexts : ProviderAnswers(content, TRUE)

\* the user picks a prompt other than the selected one
SelectsSystemPrompt ==
    /\ ItemOf(storage, SelectedPromptKey(selectedProvider, currentModel))
           # Some("creative")
    /\ SelectSystemPrompt("creative")

SelectsModelInSettings == SelectModelInSettings("openai", "gpt-4")

NextStartup ==
    \/ InitializeApp
    \/ LoadSystemPrompt

SpecStartup == InitStartup /\ [][NextStartup]_vars

NextChat ==
    \/ InitializeAppReliably
    \/ LoadSystemPrompt
    \/ ChangesText
    \/ SendMessage
    \/ ProviderReplies
    \/ ProviderFails
    \/ SelectsSystemPrompt
    \/ SelectsModelInSettings

SpecChat == InitChat /\ [][NextChat]_vars

-----------------------------------------------------------------------------
(* The chat screen with two conversations in the sidebar *)

\* the store of a user who has entered an API key and has an earlier
\* conversation that is not current
InitSwitch ==
    /\ FirstRender
    /\ storage = [openai_api_key |-> "sk-1",
                  stored_conversations |-> JSONstringify(<<PreviousConversation>>)]

\* the user opens a conversation of the sidebar other than the current one
SwitchesConversation ==
    \E i \in 1..Len(chatConversations) :
        /\ currentConversation # null
        /\ chatConversations[i].id # currentConversation[1].id
        /\ SwitchToConversation(chatConversations[i])

\* the user sends one message
SendsOnce == firstSent = << >> /\ SendMessage

NextSwitch ==
    \/ InitializeAppReliably
    \/ ChangesText
    \/ SendsOnce
    \/ ProviderReplies
    \/ ProviderFails
    \/ SwitchesConversation

SpecSwitch == InitSwitch /\ [][NextSwitch]_vars

-----------------------------------------------------------------------------
(* Properties of trimContext *)

TrimCalled == Len(trimResults) >= 1
TrimResult == trimResults[1].result
LastMessage == inMessages[Len(inMessages)]
Available == availableTokens(inModelName, inSystemPrompt, inMaxTokens)

Suffix(seq, k) == SubSeq(seq, k + 1, Len(seq))

RECURSIVE SumOfEstimates(_)
SumOfEstimates(seq) ==
    IF seq = << >> THEN 0
    ELSE estimateTokens(Head(seq).text) + SumOfEstimates(Tail(seq))

CachedTokensAreEstimates ==
    \A i \in 1..Len(inMessages) :
        "tokens" \in DOMAIN inMessages[i]
            => inMessages[i].tokens = estimateTokens(inMessages[i].text)

\* C1: the result of trimContext is a contiguous suffix of its input: for
\* some k it is messages[k..end], same elements in the same order.
C1_ResultIsSuffix ==
    TrimCalled =>
        \E k \in 0..Len(inMessages) : TrimResult = Suffix(inMessages, k)

\* a call that keeps two or more messages and drops at least one older one
C1_Witness ==
    /\ TrimCalled
    /\ Len(TrimResult) >= 2
    /\ Len(TrimResult) < Len(inMessages)

\* C2: the result of trimContext is non-empty exactly when the input is
\* non-empty, whatever the budget.
C2_NonEmptyIffInputNonEmpty ==
    TrimCalled => (Len(TrimResult) > 0 <=> Len(inMessages) > 0)

\* a call in which not even the most recent message fits the budget
C2_Witness ==
    /\ TrimCalled
    /\ Len(inMessages) > 0
    /\ ~Fits(0, LastMessage, Available)
    /\ Len(TrimResult) = 1

\* C3: without a maxTokens override and with cached tokens equal to the
\* estimates, a result of more than one message has a total estimated cost of
\* at most floor(0.8 * getContextLimit(model)) - systemTokens.
C3_BudgetRespected ==
    (/\ TrimCalled
     /\ inMaxTokens = undefined
     /\ CachedTokensAreEstimates
     /\ Len(TrimResult) > 1)
    => /\ IsNumber(getContextLimit(inModelName))
       /\ SumOfEstimates(TrimResult)
            <= ((getContextLimit(inModelName).value * 8) \div 10)
               - (IF inSystemPrompt = undefined THEN 0
                  ELSE estimateTokens(inSystemPrompt[1]))

\* a call without override whose budget is used up exactly by two messages
\* while an older message is dropped
C3_Witness ==
    /\ TrimCalled
    /\ inMaxTokens = undefined
    /\ Len(TrimResult) = 2
    /\ Len(inMessages) = 3
    /\ IsNumber(Available)
    /\ SumOfEstimates(TrimResult) = Available.value

\* C4 as stated: whenever the available budget is zero or negative and the
\* input is non-empty, the walk admits no message and the result is exactly
\* the most recent message.
C4_Original ==
    (/\ TrimCalled
     /\ Len(inMessages) > 0
     /\ IsNumber(Available)
     /\ Available.value <= 0)
    => TrimResult = <<LastMessage>>

\* C4 amended: whenever the available budget is negative, or is zero and the
\* most recent message has a positive cost, and the input is non-empty, the
\* walk admits no message and the result is exactly the most recent message.
C4_ForcedSingleMessage ==
    (/\ TrimCalled
     /\ Len(inMessages) > 0
     /\ IsNumber(Available)
     /\ \/ Available.value < 0
        \/ Available.value = 0 /\ messageTokens(LastMessage) > 0)
    => /\ TrimResult = <<LastMessage>>
       /\ TrimLoop(inMessages, Len(inMessages), 0, << >>, Available) = << >>

\* a call with a negative budget on several messages whose most recent one
\* costs nothing
C4_Witness ==
    /\ TrimCalled
    /\ Len(inMessages) >= 2
    /\ IsNumber(Available)
    /\ Available.value < 0
    /\ messageTokens(LastMessage) = 0
    /\ TrimResult = <<LastMessage>>

\* C5 as stated: whenever a maxTokens override is passed, whatever its integer
\* value, the limit used is that override and the capacity of modelName has no
\* influence on the result.
C5_OverrideReplacesLookup ==
    (TrimCalled /\ inMaxTokens # undefined)
    => /\ contextLimit(inModelName, inMaxTokens) = Number(inMaxTokens[1])
       /\ \A m \in TrimModelNames :
            trimContext(inMessages, m, inSystemPrompt, inMaxTokens) = TrimResult

-----------------------------------------------------------------------------
(* Properties of estimateTokens, getContextLimit, generateConversationTitle *)

\* C7: estimateTokens(text) = ceil(length(text) / 4): it is >= 0, it is 0 for
\* the empty string, and it is monotone in the length of the text.
C7_EstimateIsCeiling ==
    estimateA # undefined =>
        /\ 4 * estimateA[1] >= Len(textA)
        /\ 4 * (estimateA[1] - 1) < Len(textA)
        /\ estimateA[1] >= 0
        /\ (Len(textA) = 0 => estimateA[1] = 0)
        /\ (Len(textA) <= Len(textB) => estimateA[1] <= estimateB[1])

\* two texts whose lengths are not multiples of 4, the shorter one estimated
\* lower
C7_Witness ==
    /\ estimateA # undefined
    /\ Len(textA) % 4 = 1
    /\ Len(textB) % 4 = 3
    /\ Len(textA) < Len(textB)
    /\ estimateA[1] < estimateB[1]

\* C8 as stated: getContextLimit returns the table's value for a key of the
\* table and 4096 for every other string.
C8_TableValueOr4096 ==
    limitResult # undefined =>
        limitResult[1] = IF modelArg \in DOMAIN MODEL_CONTEXT_LIMITS
                         THEN Number(MODEL_CONTEXT_LIMITS[modelArg])
                         ELSE Number(4096)

NewlinesCollapsed(s) == [i \in 1..Len(s) |-> IF s[i] = "\n" THEN " " ELSE s[i]]

InkPositions(s) == {i \in 1..Len(s) : s[i] \notin {" ", "\n", "\t", "\r"}}

Least(S) == CHOOSE i \in S : \A j \in S : i <= j
Greatest(S) == CHOOSE i \in S : \A j \in S : i >= j

\* s without its leading and trailing white space
Stripped(s) ==
    IF InkPositions(s) = {} THEN << >>
    ELSE SubSeq(s, Least(InkPositions(s)), Greatest(InkPositions(s)))

\* C9 as stated: the title is the input with each newline replaced by a
\* space, unchanged if that has at most 50 characters, else its first 47
\* characters followed by "...".
C9_Original ==
    title # undefined =>
        LET collapsed == NewlinesCollapsed(firstMessage)
        IN  title[1] = IF Len(collapsed) <= 50 THEN collapsed
                       ELSE SubSeq(collapsed, 1, 47) \o <<".", ".", ".">>

\* C9 amended: the title is computed from the input without its leading and
\* trailing white space, each remaining newline replaced by a space: that
\* string unchanged if it has at most 50 characters, else its first 47
\* characters followed by "..." (50 characters in all).
C9_TitleOfStrippedInput ==
    title # undefined =>
        LET collapsed == NewlinesCollapsed(Stripped(firstMessage))
        IN  /\ title[1] = IF Len(collapsed) <= 50 THEN collapsed
                          ELSE SubSeq(collapsed, 1, 47) \o <<".", ".", ".">>
            /\ Len(collapsed) > 50 => Len(title[1]) = 50

\* an input with white space around more than 50 characters, a newline among
\* the first 47 of them, truncated to 50 characters
C9_Witness ==
    /\ title # undefined
    /\ Len(firstMessage) > 0
    /\ firstMessage[1] = " "
    /\ firstMessage[Len(firstMessage)] = "\n"
    /\ Len(Stripped(firstMessage)) > 50
    /\ \E i \in 1..47 : Stripped(firstMessage)[i] = "\n"
    /\ Len(title[1]) = 50
    /\ \A i \in 1..50 : title[1][i] # "\n"

-----------------------------------------------------------------------------
(* Properties of the system prompt catalog *)

FirstBuiltInText ==
    "You are a helpful AI assistant. Be concise, accurate, and friendly in your responses."

StoredCustomPrompts ==
    IF SYSTEM_PROMPTS_KEY \in DOMAIN storage THEN storage[SYSTEM_PROMPTS_KEY] ELSE << >>

KnownPromptIds ==
    {DEFAULT_SYSTEM_PROMPTS[i].id : i \in 1..Len(DEFAULT_SYSTEM_PROMPTS)}
    \cup {StoredCustomPrompts[i].id : i \in 1..Len(StoredCustomPrompts)}

\* a step in which a getSelectedSystemPrompt call returns
GetSelectedPromptReturns == getVars' # getVars /\ getPc' = "idle"

\* C10: getSelectedSystemPrompt returns the text of the first built-in prompt
\* whenever no preference is stored for the pair, or the id it read matches no
\* built-in or stored custom prompt, or its storage read fails; it never throws
\* and never returns an empty text.
C10_FallsBackToFirstBuiltIn ==
    [][GetSelectedPromptReturns =>
        LET r == selectedPrompt'[1]
        IN  /\ ~r.threw
            /\ r.text # ""
            /\ (\/ r.readFailed
                \/ r.promptId = null
                \/ r.promptId[1] \notin KnownPromptIds)
               => r.text = FirstBuiltInText]_vars

\* a call returned the first built-in text for a pair whose stored id is that
\* of a custom prompt which is no longer in the stored custom list
C10_Witness ==
    /\ selectedPrompt # undefined
    /\ getPc = "idle"
    /\ ~selectedPrompt[1].readFailed
    /\ selectedPrompt[1].promptId = Some("custom1")
    /\ selectedPrompt[1].text = FirstBuiltInText
    /\ SelectedPromptKey(selectedPrompt[1].providerId, selectedPrompt[1].modelName)
           \in DOMAIN storage
    /\ storage[SelectedPromptKey(selectedPrompt[1].providerId,
                                 selectedPrompt[1].modelName)] = "custom1"
    /\ SYSTEM_PROMPTS_KEY \in DOMAIN storage
    /\ "custom1" \notin KnownPromptIds

\* the text of the prompt with the given id among the built-in prompts
BuiltInText(promptId) ==
    DEFAULT_SYSTEM_PROMPTS[FindIndexById(DEFAULT_SYSTEM_PROMPTS, promptId)].prompt

-----------------------------------------------------------------------------
(* Properties of the conversation store *)

\* the stored conversations as getConversations returns them
StoredConversations == getConversations(TRUE)

\* the indices of the records with the given id
IndicesOfId(conversations, id) ==
    {i \in 1..Len(conversations) : conversations[i].id = id}

\* a step in which a saveConversation call of caller p returns normally
SaveReturns(p) ==
    /\ calls[p].op = "saveConversation"
    /\ calls'[p].op = "idle"
    /\ ~outcome'[p].threw

\* C12: saveConversation upserts by id and refreshes updatedAt: after a
\* save(c) that completes with no concurrent writer, the store holds exactly
\* one record with id c.id, its fields other than updatedAt equal those of c,
\* and its updatedAt is the time of this save, whether c.id was stored before
\* or not.
C12_SaveUpsertsAndRefreshes ==
    [][\A p \in Callers :
        (SaveReturns(p) /\ ~outcome'[p].interfered) =>
            LET c == outcome'[p].conversation
                indices == IndicesOfId(StoredConversations', c.id)
            IN  /\ Cardinality(indices) = 1
                /\ \A i \in indices :
                    /\ [StoredConversations'[i] EXCEPT !.updatedAt = c.updatedAt] = c
                    /\ StoredConversations'[i].updatedAt = Date(now)]_vars

WriteOperations ==
    {"saveConversation", "deleteConversation", "setCurrentConversationId",
     "setSelectedSystemPrompt"}

\* C13: on a storage failure getConversations returns the empty list without
\* throwing, while saveConversation, deleteConversation,
\* setCurrentConversationId and setSelectedSystemPrompt propagate the failure
\* of their storage write to the caller.
C13_ReadsDegradeWritesPropagate ==
    \A p \in Callers :
        /\ outcome[p].op = "getConversations" =>
            /\ ~outcome[p].threw
            /\ outcome[p].fault = "read" => outcome[p].result = << >>
        /\ (outcome[p].op \in WriteOperations /\ outcome[p].fault = "write") =>
            outcome[p].threw

\* a saveConversation call whose write failed threw, over a store that holds
\* a conversation, and left the store as it was when the call read it
C13_Witness ==
    /\ outcome[StoreCaller].op = "saveConversation"
    /\ outcome[StoreCaller].fault = "write"
    /\ outcome[StoreCaller].threw
    /\ outcome[StoreCaller].conversations # << >>
    /\ StoredConversations = outcome[StoreCaller].conversations

-----------------------------------------------------------------------------
(* Properties of the chat screen *)

\* the messages of the conversation with the given id in a list of
\* conversations, none when the list holds no such conversation
MessagesOfId(list, id) ==
    IF IndicesOfId(list, id) = {} THEN << >>
    ELSE list[CHOOSE i \in IndicesOfId(list, id) : TRUE].messages

\* the conversation with the id of the current conversation, as stored
PersistedCurrent ==
    LET list == conversationsIn(storage, TRUE)
    IN  list[CHOOSE i \in IndicesOfId(list, currentConversation[1].id) : TRUE]

\* a step in which sendMessage has saved the reply of the provider
ReplySaved ==
    /\ handed # undefined /\ handed[1].outcome = "pending"
    /\ handed'[1].outcome = "reply"

\* C15: after a send completes with a successful provider reply, the
\* persisted message list of the current conversation is the list stored
\* before the send, followed by the user's message, followed by the reply:
\* both messages of the turn are stored in that order and no previously
\* stored message is removed.
C15_TurnStoredInOrder ==
    [][ReplySaved =>
        LET id == currentConversation'[1].id
            stored == MessagesOfId(conversationsIn(storage', TRUE), id)
            before == MessagesOfId(handed[1].storedBefore, id)
            userMessage == send.userMessage
            reply == chatMessages'[Len(chatMessages')]
        IN  stored = before \o <<WithTokens(userMessage), WithTokens(reply)>>]_vars

\* C16: on every send the model identifier passed to trimContext is the model
\* identifier passed to the provider call of that request.
C16_TrimmedForTheModelCalled ==
    handed # undefined => handed[1].trimmedFor = handed[1].selectedModel

\* C17: the turn sequence handed to the provider on a send is one leading
\* system turn iff the active system prompt is not empty, followed by the
\* messages of trimContext(current conversation messages ++ [new user
\* message]) in order, each with role user when isUser and assistant
\* otherwise; its last turn is the user turn with the text just entered.
C17_TurnSequence ==
    handed # undefined =>
        LET h == handed[1]
            trimmed == trimContext(h.conversationMessages, h.trimmedFor,
                                   Some(h.systemPrompt), undefined)
            turns == h.conversationHistory
            lead == IF h.systemPrompt # "" THEN 1 ELSE 0
        IN  /\ send # Idle =>
                   h.conversationMessages =
                       Append(send.currentConversation.messages,
                              WithTokens(send.userMessage))
            /\ Len(turns) = lead + Len(trimmed)
            /\ lead = 1 => /\ turns[1].role = "system"
                           /\ turns[1].content = h.systemPrompt
            /\ \A i \in 1..Len(trimmed) :
                   /\ turns[lead + i].role =
                          (IF trimmed[i].isUser THEN "user" ELSE "assistant")
                   /\ turns[lead + i].content = trimmed[i].text
            /\ turns[Len(turns)].role = "user"
            /\ turns[Len(turns)].content = Trim(h.inputText)

\* a send whose history starts with the system turn and from which
\* trimContext dropped an earlier message of the conversation
C17_Witness ==
    /\ handed # undefined
    /\ handed[1].systemPrompt # ""
    /\ Len(handed[1].conversationMessages) >= 2
    /\ 1 < Len(handed[1].conversationHistory)
    /\ Len(handed[1].conversationHistory) <= Len(handed[1].conversationMessages)

\* a send with no system prompt whose history is the whole conversation
C17_WitnessNoSystemTurn ==
    /\ handed # undefined
    /\ handed[1].systemPrompt = ""
    /\ Len(handed[1].conversationHistory) = Len(handed[1].conversationMessages)
    /\ Len(handed[1].conversationHistory) >= 2

\* the persisted current id resolves to a stored conversation
Resolves(store) ==
    /\ ItemOf(store, CURRENT_CONVERSATION_KEY) # null
    /\ IndicesOfId(conversationsIn(store, TRUE),
                   ItemOf(store, CURRENT_CONVERSATION_KEY)[1]) # {}

\* a step of initializeApp after which the stored conversation with the
\* persisted current id is current and its messages are shown
LoadedAtStartup ==
    LET id == ItemOf(storage, CURRENT_CONVERSATION_KEY)[1]
        list == conversationsIn(storage, TRUE)
        conversation == list[CHOOSE i \in IndicesOfId(list, id) : TRUE]
    IN  /\ currentConversation' = Some(conversation)
        /\ Len(chatMessages') = Len(conversation.messages)
        /\ \A i \in 1..Len(chatMessages') :
               /\ chatMessages'[i].id = conversation.messages[i].id
               /\ chatMessages'[i].text = conversation.messages[i].text
               /\ chatMessages'[i].isUser = conversation.messages[i].isUser

\* a step of initializeApp after which a conversation that was not stored
\* is current
CreatedAtStartup ==
    /\ currentConversation' # null
    /\ IndicesOfId(conversationsIn(storage, TRUE), currentConversation'[1].id) = {}
    /\ currentConversation'[1].title = NewConversationTitle
    /\ currentConversation'[1].createdAt = Date(now)

\* the id of the current conversation is the persisted current id
CurrentIdPersisted ==
    ItemOf(storage', CURRENT_CONVERSATION_KEY) = Some(currentConversation'[1].id)

\* what holds after a step of initializeApp whose reads of the current id
\* and of the conversations succeeded or not
AfterStartup(idReadOk, findOk, idWritten) ==
    /\ currentConversation' # null
    /\ IF Resolves(storage) /\ idReadOk /\ findOk
       THEN LoadedAtStartup
       ELSE CreatedAtStartup /\ (idWritten => CurrentIdPersisted)

\* C18: after chat initialization finishes there is always a current
\* conversation: if the persisted current id resolves to a stored
\* conversation, that conversation is loaded with its messages; otherwise (no
\* id, dangling id, or a storage read failure) a new conversation is created,
\* made current, and its id is written as the persisted current id.
C18_CurrentConversationAfterInit ==
    [][\A settingsOk \in BOOLEAN, modelOk \in BOOLEAN, listOk \in BOOLEAN,
         idReadOk \in BOOLEAN, findOk \in BOOLEAN, idWriteOk \in BOOLEAN,
         readOk \in BOOLEAN, writeOk \in BOOLEAN :
        initializeApp(settingsOk, modelOk, listOk, idReadOk, findOk, idWriteOk,
                      readOk, writeOk)
        => AfterStartup(idReadOk, findOk, TRUE)]_vars

\* C18 amended: as C18, but the id of the new conversation is the persisted
\* current id only when the write of setCurrentConversationId succeeds; when
\* it fails, the new conversation is current and the persisted id is not
\* its id.
C18_CurrentIdWrittenUnlessWriteFails ==
    [][\A settingsOk \in BOOLEAN, modelOk \in BOOLEAN, listOk \in BOOLEAN,
         idReadOk \in BOOLEAN, findOk \in BOOLEAN, idWriteOk \in BOOLEAN,
         readOk \in BOOLEAN, writeOk \in BOOLEAN :
        initializeApp(settingsOk, modelOk, listOk, idReadOk, findOk, idWriteOk,
                      readOk, writeOk)
        => /\ AfterStartup(idReadOk, findOk, idWriteOk)
           /\ (~(Resolves(storage) /\ idReadOk /\ findOk) /\ ~idWriteOk)
                  => ~CurrentIdPersisted]_vars

\* initialization has created a conversation next to a stored one and its id
\* is the persisted current id
C18_Witness ==
    /\ chatPc = "ready"
    /\ currentConversation # null
    /\ currentConversation[1].id # PreviousConversation.id
    /\ IndicesOfId(conversationsIn(storage, TRUE), PreviousConversation.id) # {}
    /\ ItemOf(storage, CURRENT_CONVERSATION_KEY) = Some(currentConversation[1].id)

\* C19: the title of a conversation is 'New Conversation' until its first
\* user message is sent; from then on, in every later state, the in-memory
\* title and the persisted title are generateConversationTitle(text of the
\* first user message).
C19_TitleFromFirstUserMessage ==
    (chatPc = "ready" /\ currentConversation # null) =>
        LET id == currentConversation[1].id
            expected == IF id \in DOMAIN firstSent
                        THEN generateConversationTitle(firstSent[id])
                        ELSE NewConversationTitle
        IN  /\ currentConversation[1].title = expected
            /\ IndicesOfId(conversationsIn(storage, TRUE), id) # {}
                   => PersistedCurrent.title = expected

\* C20: on an explicit prompt switch in the chat screen, selectSystemPrompt
\* of an existing prompt, the systemPrompt of the current conversation saved
\* to the store is the text of the newly selected prompt, not the text that
\* was active before the switch.
C20_SwitchSavesNewPrompt ==
    [][(switched' # switched /\ currentConversation # null) =>
        PersistedCurrent'.systemPrompt = BuiltInText(switched'[1].promptId)]_vars

-----------------------------------------------------------------------------
(* Further properties of trimContext *)

\* the positions of the user messages of the input
UserPositions == {i \in 1..Len(inMessages) : inMessages[i].isUser}

\* C21: for any input to trimContext that contains a user message, the
\* result contains the most recent user message of the input, also when the
\* input ends with assistant messages and the budget is exceeded.
C21_KeepsMostRecentUserMessage ==
    (TrimCalled /\ UserPositions # {}) =>
        LET last == CHOOSE i \in UserPositions : \A j \in UserPositions : j <= i
        IN  \E k \in 1..Len(TrimResult) : TrimResult[k] = inMessages[last]

\* the cost of a message: its tokens when set, else the estimate of its text
Cost(message) ==
    IF "tokens" \in DOMAIN message THEN message.tokens
    ELSE estimateTokens(message.text)

RECURSIVE SumOfCosts(_)
SumOfCosts(seq) ==
    IF seq = << >> THEN 0 ELSE Cost(Head(seq)) + SumOfCosts(Tail(seq))

\* C22: trimContext selects by a hard cutoff walking from the newest message
\* backward: whenever the newest message alone fits, the result is the
\* longest suffix of the input whose total cost is at most the available
\* budget (equality included); no message older than the first one that
\* does not fit is included, even if it would fit on its own.
C22_LongestFittingSuffix ==
    (/\ TrimCalled
     /\ Len(inMessages) > 0
     /\ IsNumber(Available)
     /\ Cost(LastMessage) <= Available.value)
    => \E k \in 0..(Len(inMessages) - 1) :
        /\ TrimResult = Suffix(inMessages, k)
        /\ SumOfCosts(TrimResult) <= Available.value
        /\ \A j \in 0..(k - 1) :
               SumOfCosts(Suffix(inMessages, j)) > Available.value

\* a call whose newest message uses up the budget exactly and is the whole
\* result, the message before it does not fit, and the oldest message, which
\* costs nothing, is left out
C22_Witness ==
    /\ TrimCalled
    /\ Len(inMessages) = 3
    /\ IsNumber(Available)
    /\ TrimResult = <<LastMessage>>
    /\ Cost(LastMessage) = Available.value
    /\ Cost(LastMessage) > 0
    /\ Cost(inMessages[2]) > 0
    /\ Cost(inMessages[1]) = 0

\* C30: trimContext is idempotent for fixed modelName, systemPrompt and
\* maxTokens: trimming the result of a call again gives that result, also
\* when the result is the forced single message that exceeds the budget.
C30_Idempotent ==
    TrimCalled =>
        trimContext(TrimResult, inModelName, inSystemPrompt, inMaxTokens)
            = TrimResult

\* a call on several messages whose result is the single most recent
\* message, which exceeds the budget
C30_Witness ==
    /\ TrimCalled
    /\ Len(inMessages) >= 2
    /\ IsNumber(Available)
    /\ Cost(LastMessage) > Available.value
    /\ TrimResult = <<LastMessage>>

-----------------------------------------------------------------------------
(* Further properties of the conversation store *)

\* a step in which a saveConversation or deleteConversation call of caller p
\* returns normally
SaveOrDeleteReturns(p) ==
    /\ calls[p].op \in {"saveConversation", "deleteConversation"}
    /\ calls'[p].op = "idle"
    /\ ~outcome'[p].threw

\* the id a saveConversation or deleteConversation call is about
IdOfCall(call) ==
    IF call.op = "saveConversation" THEN call.conversation.id
    ELSE call.conversationId

\* C25: saveConversation(c) and deleteConversation(id) change only the record
\* with the given id: every stored conversation with a different id is still
\* stored and unchanged after a call that completes, also when the read of the
\* collection inside the call failed.
C25_OtherRecordsUnchanged ==
    [][SaveOrDeleteReturns(StoreCaller) =>
        \A i \in 1..Len(StoredConversations) :
            StoredConversations[i].id # IdOfCall(calls[StoreCaller])
            => \E j \in 1..Len(StoredConversations') :
                   StoredConversations'[j] = StoredConversations[i]]_vars

\* C26: starting from a store in which conversation ids are pairwise
\* distinct, after any sequence and any interleaving of saveConversation and
\* deleteConversation calls the persisted conversation list never contains
\* two records with the same id.
C26_IdsPairwiseDistinct ==
    \A i \in 1..Len(StoredConversations), j \in 1..Len(StoredConversations) :
        StoredConversations[i].id = StoredConversations[j].id => i = j

\* the store holds two conversations after a save that was written between
\* the read and the write of another call, and after a delete
C26_Witness ==
    /\ Len(StoredConversations) = 2
    /\ outcome["first"].op = "saveConversation"
    /\ outcome["first"].interfered /\ ~outcome["first"].threw
    /\ IndicesOfId(outcome["first"].conversations,
                   outcome["first"].conversation.id) # {}
    /\ outcome["second"].op = "deleteConversation"
    /\ ~outcome["second"].threw

-----------------------------------------------------------------------------
(* Further properties of the chat screen *)

\* C23: provider calls are sequential: in every reachable state of the chat
\* screen at most one completion request is in flight; a send does not start
\* between the start of another send and the arrival of its reply or error.
C23_OneRequestInFlight ==
    /\ handed # undefined => ~handed[1].overlapped
    /\ send # Idle => (isLoading /\ ~ENABLED SendMessage)

\* a request is in flight and the user has typed the next message
C23_Witness ==
    /\ send # Idle
    /\ isLoading
    /\ Trim(inputText) # << >>

\* C27: whenever no chat operation is in progress, the displayed message
\* list, the in-memory current conversation and the persisted
\* current-conversation id refer to the same conversation: the persisted id
\* is the id of the in-memory conversation and the messages of that
\* conversation are displayed, also after a reply that arrives when the user
\* has switched to another conversation.
C27_OneCurrentConversation ==
    (chatPc = "ready" /\ send = Idle /\ currentConversation # null) =>
        /\ ItemOf(storage, CURRENT_CONVERSATION_KEY)
               = Some(currentConversation[1].id)
        /\ \A i \in 1..Len(currentConversation[1].messages) :
               \E j \in 1..Len(chatMessages) :
                   chatMessages[j] = shownMessage(currentConversation[1].messages[i])

-----------------------------------------------------------------------------
(* The settings screen: Clear All Chats *)

\* the conversation stored under an id before the chats are cleared
StoredBefore(id) ==
    [id |-> id, title |-> Chars("a", 2), messages |-> <<StoreMessage>>,
     providerId |-> "openai", modelName |-> "gpt-3.5-turbo",
     createdAt |-> Date(0), updatedAt |-> Date(0)]

\* what the store can hold when the user opens the settings screen: nothing,
\* or one or two conversations with one of them current
StoresBeforeClear ==
    {<< >>}
    \cup UNION {{(CONVERSATIONS_KEY :> JSONstringify(list))
                    @@ (CURRENT_CONVERSATION_KEY :> list[i].id) :
                  i \in 1..Len(list)} :
                list \in {<<StoredBefore("101")>>,
                          <<StoredBefore("101"), StoredBefore("102")>>}}

\* the conversation handleClearAllChats creates after the deletions
newConversationAfterClear ==
    [id |-> DateNowString, title |-> NewConversationTitle, messages |-> << >>,
     providerId |-> "openai", modelName |-> "gpt-4o", systemPrompt |-> "",
     createdAt |-> Date(now), updatedAt |-> Date(now)]

\* handleClearAllChats leaves through its catch block: the error alert
ClearFailed(before) ==
    [op |-> "handleClearAllChats", threw |-> TRUE, before |-> before]

ClearUnchanged ==
    UNCHANGED <<estimateVars, titleVars, trimVars, getVars, prefVars, chatVars>>

\* the user confirms Clear All: handleClearAllChats up to the return of
\* getConversations, which yields [] when its read fails
ClearAllChatsReads ==
    /\ calls[StoreCaller].op = "idle" /\ outcome[StoreCaller].op = "idle"
    /\ \E readOk \in BOOLEAN :
        calls' = [calls EXCEPT ![StoreCaller] =
            [op |-> "handleClearAllChats", pc |-> "deleting",
             allConversations |-> getConversations(readOk), listRead |-> readOk,
             before |-> getConversations(TRUE)]]
    /\ UNCHANGED <<outcome, envVars>>
    /\ ClearUnchanged

\* one turn of the loop: deleteConversation(conversation.id), whose failed
\* write is rethrown and ends the handler in its catch block
ClearAllChatsDeletes ==
    /\ calls[StoreCaller].op = "handleClearAllChats"
    /\ calls[StoreCaller].pc = "deleting"
    /\ calls[StoreCaller].allConversations # << >>
    /\ \E readOk, writeOk \in BOOLEAN :
        LET conversation == Head(calls[StoreCaller].allConversations)
            filtered == FilterOutId(getConversations(readOk), conversation.id)
        IN  /\ storage' = IF writeOk
                          THEN setItem(CONVERSATIONS_KEY, JSONstringify(filtered))
                          ELSE storage
            /\ raised' = CatchAndRethrow(~writeOk)
            /\ IF raised'
               THEN /\ calls' = [calls EXCEPT ![StoreCaller] = Idle]
                    /\ outcome' = [outcome EXCEPT ![StoreCaller] =
                           ClearFailed(calls[StoreCaller].before)]
               ELSE /\ calls' = [calls EXCEPT ![StoreCaller].allConversations = Tail(@)]
                    /\ UNCHANGED outcome
    /\ UNCHANGED now
    /\ ClearUnchanged

\* after the loop: the new conversation is built and its id is written as
\* the current one
ClearAllChatsSetsCurrent ==
    /\ calls[StoreCaller].op = "handleClearAllChats"
    /\ calls[StoreCaller].pc = "deleting"
    /\ calls[StoreCaller].allConversations = << >>
    /\ \E writeOk \in BOOLEAN :
        /\ storage' = IF writeOk
                      THEN setItem(CURRENT_CONVERSATION_KEY, newConversationAfterClear.id)
                      ELSE storage
        /\ raised' = CatchAndRethrow(~writeOk)
        /\ IF raised'
           THEN /\ calls' = [calls EXCEPT ![StoreCaller] = Idle]
                /\ outcome' = [outcome EXCEPT ![StoreCaller] =
                       ClearFailed(calls[StoreCaller].before)]
           ELSE /\ calls' = [calls EXCEPT ![StoreCaller] =
                       [@ EXCEPT !.pc = "saving"]
                           @@ [newConversation |-> newConversationAfterClear]]
                /\ UNCHANGED outcome
    /\ UNCHANGED now
    /\ ClearUnchanged

\* saveConversation(newConversation), then the success alert; a failed write
\* ends the handler in its catch block
ClearAllChatsSaves ==
    /\ calls[StoreCaller].op = "handleClearAllChats"
    /\ calls[StoreCaller].pc = "saving"
    /\ \E readOk, writeOk \in BOOLEAN :
        LET updated == saveConversationModify(getConversations(readOk),
                                              calls[StoreCaller].newConversation)
        IN  /\ storage' = IF writeOk
                          THEN setItem(CONVERSATIONS_KEY, JSONstringify(updated))
                          ELSE storage
            /\ raised' = CatchAndRethrow(~writeOk)
            /\ outcome' = [outcome EXCEPT ![StoreCaller] =
                   IF raised'
                   THEN ClearFailed(calls[StoreCaller].before)
                   ELSE [op |-> "handleClearAllChats", threw |-> FALSE,
                         before |-> calls[StoreCaller].before,
                         listRead |-> calls[StoreCaller].listRead,
                         newConversation |-> calls[StoreCaller].newConversation]]
    /\ calls' = [calls EXCEPT ![StoreCaller] = Idle]
    /\ UNCHANGED now
    /\ ClearUnchanged

InitClear ==
    /\ InitEstimateIdle /\ InitTitleIdle /\ InitTrimIdle /\ InitGetIdle /\ InitAppIdle
    /\ now = 0 /\ raised = FALSE
    /\ storage \in StoresBeforeClear

NextClear ==
    \/ ClearAllChatsReads
    \/ ClearAllChatsDeletes
    \/ ClearAllChatsSetsCurrent
    \/ ClearAllChatsSaves
    \/ StoreClockTicks

SpecClear == InitClear /\ [][NextClear]_vars

\* Clear All Chats completed without error
ClearedWithoutError ==
    /\ outcome[StoreCaller].op = "handleClearAllChats"
    /\ ~outcome[StoreCaller].threw

\* C29: after Clear All Chats completes without error, the persisted list
\* holds exactly one conversation, the new empty one, and the persisted
\* current id is the id of that conversation, whatever was stored before
C29_OnlyTheNewConversation ==
    ClearedWithoutError =>
        /\ StoredConversations = <<outcome[StoreCaller].newConversation>>
        /\ outcome[StoreCaller].newConversation.messages = << >>
        /\ getCurrentConversationId(TRUE) = Some(outcome[StoreCaller].newConversation.id)

\* Clear All Chats completed without error over a store that held
\* conversations
C29_Cleared ==
    /\ ClearedWithoutError
    /\ outcome[StoreCaller].before # << >>

-----------------------------------------------------------------------------
(* Sending while storage calls fail *)

\* the user sends a message, once per conversation; each storage call of
\* the send succeeds or fails
SendsUnderFaults ==
    /\ currentConversation # null
    /\ currentConversation[1].id \notin DOMAIN firstSent
    /\ \E readOk, writeOk, listOk, modelOk \in BOOLEAN :
        sendMessage(readOk, writeOk, listOk, modelOk)

ProviderRepliesUnderFaults ==
    \E content \in AnswerTexts, readOk, writeOk, listOk \in BOOLEAN :
        sendMessageResumes(content, FALSE, readOk, writeOk, listOk)

ProviderFailsUnderFaults ==
    \E content \in ErrorTexts, readOk, writeOk, listOk \in BOOLEAN :
        sendMessageResumes(content, TRUE, readOk, writeOk, listOk)

InitSend == InitSwitch

NextSend ==
    \/ InitializeAppReliably
    \/ ChangesText
    \/ SendsUnderFaults
    \/ ProviderRepliesUnderFaults
    \/ ProviderFailsUnderFaults
    \/ SwitchesConversation

\* the provider call of a send in progress returns or throws
ProviderCallEnds ==
    WF_vars(ProviderRepliesUnderFaults \/ ProviderFailsUnderFaults)

SpecSend == InitSend /\ [][NextSend]_vars /\ ProviderCallEnds

\* the provider call of the send in progress throws in this step
ProviderCallFailed ==
    /\ handed # undefined /\ handed[1].outcome = "pending"
    /\ handed'[1].outcome = "error"

\* this step appends one message that is not the user's to the displayed
\* list and changes nothing else of it
AppendsOneErrorMessage ==
    /\ Len(chatMessages') = Len(chatMessages) + 1
    /\ SubSeq(chatMessages', 1, Len(chatMessages)) = chatMessages
    /\ ~chatMessages'[Len(chatMessages')].isUser
    /\ chatMessages'[Len(chatMessages')].text \in ErrorTexts

\* C28: every send that sets isLoading to true eventually sets it back to
\* false, whether the provider call succeeds or fails and whether the
\* storage writes of the send succeed or fail; a failed provider call
\* appends exactly one assistant-side error message to the displayed list
C28_LoadingEndsAndErrorShown ==
    /\ isLoading ~> ~isLoading
    /\ [][ProviderCallFailed => AppendsOneErrorMessage]_vars

\* a send whose user message could not be written and whose provider call
\* failed has ended with isLoading false and the error message displayed
C28_Witness ==
    /\ handed # undefined /\ handed[1].outcome = "error"
    /\ ~handed[1].userMessageWritten
    /\ ~isLoading
    /\ chatMessages # << >>
    /\ chatMessages[Len(chatMessages)].text \in ErrorTexts

====
